---- MODULE Spec2Model ----
(***************************************************************************)
(* Model of the recording page of roseratugo/okarin                        *)
(* (src/unnamed/part_002, RecordingPage): the participant list and the     *)
(* session table folded from signaling messages, the recording toggle, the *)
(* local track toggles, the device hot-swap, the voice monitor and leaving *)
(* the room; and of the join handlers of PreJoinPage.tsx and JoinRoomPage   *)
(* (src/unnamed/part_003) that lead to it.                                 *)
(*                                                                         *)
(* Every `await` of the source is a point where the handler is suspended   *)
(* and other handlers may run: a suspended handler is a record in          *)
(* `handlers`, `recs` or `swaps`, and its continuation is an action.       *)
(* The room and recording stores (../stores) are not part of the sources   *)
(* at hand; their operations are modelled from the specification.          *)
(***************************************************************************)
EXTENDS Integers, Sequences, FiniteSets, TLC

\* ------------------------------------------------------------------ bounds
\* Signaling messages delivered to ws.onmessage in one run.
MaxMsgs == 2
\* Invocations of handleToggleRecording in one run.
MaxRecCalls == 2
\* Invocations of handleAudioInputChange / handleVideoInputChange in one run.
MaxSwaps == 1
\* Join attempts (handleJoin, handleJoinRoom, handleJoinWithSettings) in one run.
MaxJoins == 2
\* Ticks of the recording timer in one run.
MaxTicks == 2
\* The latest timestamp, in milliseconds, of an animation frame in one run.
MaxTime == 300
\* Runs of the pre-join page's media effect in one run.
MaxAcquires == 2
\* The calls of enumerateDevices of the device registry.
MaxEnums == 3

\* ------------------------------------------------------------- value sets
\* The reserved id of the local participant in the room store.
SelfId == "self"
\* roomInfo.participantId: the id the server gave the local participant.
LocalId == "me"
RemoteIds == {"p1", "p2"}
\* A field that is missing from a message (undefined in the source).
Absent == "absent"
\* Ids a message may carry.
MsgIds == RemoteIds \cup {SelfId, LocalId}
Names == {"Ann", "Bob"}
SessionIds == {"s1", "s2"}
NoId == "none"

\* The participant record the message handler passes to addParticipant.
RemoteParticipant(id, name) ==
    [id |-> id, name |-> name, isHost |-> FALSE, isSpeaking |-> FALSE,
     isMuted |-> TRUE, isVideoOn |-> FALSE, stream |-> FALSE]

\* The local participant the room store holds after setRoom.
SelfParticipant(host, audioOn, videoOn) ==
    [id |-> SelfId, name |-> "Me", isHost |-> host, isSpeaking |-> FALSE,
     isMuted |-> ~audioOn, isVideoOn |-> videoOn, stream |-> FALSE]

Ids(ps) == [i \in DOMAIN ps |-> ps[i].id]
IdSet(ps) == {ps[i].id : i \in DOMAIN ps}
Find(ps, id) == CHOOSE i \in DOMAIN ps : ps[i].id = id

\* ------------------------------------------------------------- room store
\* A store that appends whatever it is given.
addParticipantAlways(ps, p) == Append(ps, p)

\* addParticipant: a participant whose id is already present is not added.
addParticipant(ps, p) ==
    IF p.id \in IdSet(ps) THEN ps ELSE Append(ps, p)

\* A store that removes "self" like any other participant.
removeThrowsNever(id) == FALSE

\* removeParticipant("self") is an InvalidOperation; the handler's try/catch
\* receives it.
removeThrows(id) == id = SelfId

\* removeParticipant: an unknown id removes nothing.
removeParticipant(ps, id) == SelectSeq(ps, LAMBDA p : p.id # id)

updateParticipantMuted(ps, id, muted) ==
    [i \in DOMAIN ps |-> IF ps[i].id = id THEN [ps[i] EXCEPT !.isMuted = muted] ELSE ps[i]]

updateParticipantVideo(ps, id, on) ==
    [i \in DOMAIN ps |-> IF ps[i].id = id THEN [ps[i] EXCEPT !.isVideoOn = on] ELSE ps[i]]

updateParticipantSpeaking(ps, id, sp) ==
    [i \in DOMAIN ps |-> IF ps[i].id = id THEN [ps[i] EXCEPT !.isSpeaking = sp] ELSE ps[i]]

\* leaveRoom: the room state is discarded.
leaveRoomParticipants == << >>

\* --------------------------------------------------------------- messages
AnnounceMsgs ==
    [type : {"cloudflare-session"}, participantId : MsgIds, participantName : Names,
     sessionId : SessionIds, tracks : {1}]

\* participant-left / leave: the id is in participantId or in from.
LeftMsgs ==
    [type : {"participant-left"}, participantId : MsgIds \cup {Absent}, from : {Absent}]
    \cup [type : {"leave"}, participantId : {Absent}, from : MsgIds]

TrackStateMsgs ==
    [type : {"track-state"}, participantId : MsgIds, kind : {"audio", "video"},
     enabled : BOOLEAN]

\* An entry of an existing-participants snapshot; tracks is the number of tracks.
\* The handler reads of sessionId only whether it is there.
SnapshotEntries ==
    [participantId : RemoteIds \cup {LocalId}, participantName : {"Ann"},
     sessionId : {"s1", Absent}, tracks : {1}]

\* The lists of entries that name each participant at most once.
SnapshotLists ==
    LET n == Cardinality(RemoteIds \cup {LocalId})
        all == UNION {[1..k -> SnapshotEntries] : k \in 0..n}
    IN {l \in all : \A i, j \in DOMAIN l : i # j => l[i].participantId # l[j].participantId}

SnapshotMsgs ==
    [type : {"existing-participants"}, participants : SnapshotLists]

UnknownMsgs == [type : {"ping"}]

Messages == AnnounceMsgs \cup LeftMsgs \cup TrackStateMsgs \cup SnapshotMsgs \cup UnknownMsgs


\* ------------------------------------------------------------------ state
VARIABLES
    inRoom,                \* the room store holds a room (roomId is set)
    isLeaving,             \* the page's isLeaving flag
    isHost,                \* the room store's isHost
    mediaSettings,         \* the room store's mediaSettings (audioEnabled, videoEnabled)
    participants,          \* the room store's participant list, in join order
    sessionToParticipant,  \* sessionToParticipantRef: sessionId -> participantId
    media,                 \* the initial getUserMedia: "pending", "ready", "failed"
    audioTrack,            \* localStream's audio track: "none", "on" (enabled), "off"
    videoTrack,            \* localStream's video track: "none", "on" (enabled), "off"
    ws,                    \* wsRef: "none", "open", "closed"
    handlers,              \* suspended ws.onmessage calls, one slot per delivered message
    nDelivered,            \* messages delivered so far
    diag,                  \* what the last ws.onmessage call logged in its catch
    isRecording,           \* the recording store's isRecording
    participantsRecording, \* participantsRecordingRef
    openRecorders,         \* the per-participant recorders the recorder hook holds open
    error,                 \* the page's error/success banner
    recs,                  \* suspended handleToggleRecording calls, one slot per call
    nRecCalls,             \* handleToggleRecording calls so far
    swaps,                 \* suspended device-change calls, one slot per call
    nSwaps,                \* device-change calls so far
    serial,                \* history: the room state had every handler run to completion at delivery
    audioDev,              \* the acquisition localStream's audio track came from: 0 the initial
                           \* getUserMedia, k the device change in slot k
    videoDev,              \* the same for the video track
    released,              \* the tracks that were stopped: [kind, dev]
    monitor,               \* the voice monitor: whether its frame loop runs, and the track it samples
    lastSent,              \* the last track-state command sent for each kind: "none", "on", "off"
    route,                 \* the page shown: "join", "prejoin", "recording", "home"
    currentRoom,           \* sessionStorage's currentRoom entry
    isJoining,             \* the join page's isJoining flag
    joinError,             \* the join page's error text
    showPreJoin,           \* JoinRoomPage's showPreJoin flag
    joinCall,              \* the suspended join handler of the join page
    nJoins,                \* join attempts so far
    teardown,              \* history: the steps of leaving, in the order they ran
    recordingTime,         \* the recording store's recordingTime, in seconds
    frameTime,             \* the timestamp of the latest animation frame, in milliseconds
    cfInit,                \* the run of initializeCloudflare: its position and its isCancelled
    sockets,               \* history: the WebSockets created and not closed
    announces,             \* history: the session announces sent by ws.onopen
    pendingRoom,           \* sessionStorage's pendingRoom
    createCall,            \* CreateRoomPage: the position of handleCreateRoom
    pjRuns,                \* PreJoinPage: the runs of the media effect, each with its cancelled flag
    nAcquires,             \* PreJoinPage: the runs of the media effect started
    pjStream,              \* PreJoinPage: streamRef.current, as the run that acquired it (0: null)
    pjLive,                \* history: the streams acquired by the runs and not stopped
    pjTrack,               \* PreJoinPage: the enabled flags of the tracks of streamRef.current
    audioEnabled,          \* PreJoinPage: audioEnabled
    videoEnabled,          \* PreJoinPage: videoEnabled
    platformDevices,       \* the device set of the platform (navigator.mediaDevices)
    enumRuns,              \* useMediaDevices: the calls of enumerateDevices, one slot per call
    nEnums,                \* history: the calls of enumerateDevices started
    devices,               \* useMediaDevices: devices
    loading,               \* useMediaDevices: loading
    devicesError,          \* useMediaDevices: error !== null
    lastSnap,              \* history: the snapshot delivered last, if no handler was suspended
                           \* when it arrived and no message followed it
    lastRecCmd,            \* history: the last recording command issued
    lastAct                \* history: the operation that acted last

vars ==
    <<inRoom, isLeaving, isHost, mediaSettings, participants, sessionToParticipant, media, audioTrack,
      videoTrack, ws, handlers, nDelivered, diag, isRecording, participantsRecording,
      openRecorders, error, recs, nRecCalls, swaps, nSwaps, serial, lastSnap, lastRecCmd,
      lastAct, audioDev, videoDev, released, monitor, lastSent, route, currentRoom, isJoining,
      joinError, showPreJoin, joinCall, nJoins, teardown, recordingTime, frameTime,
      cfInit, sockets, announces, pendingRoom, createCall, pjRuns, nAcquires, pjStream,
      pjLive, pjTrack, audioEnabled, videoEnabled, platformDevices, enumRuns, nEnums, devices,
      loading, devicesError>>

joinVars == <<route, currentRoom, isJoining, joinError, showPreJoin, joinCall, nJoins>>
storeVars == <<inRoom, isHost, mediaSettings>>
\* The run of the effect that connects the signaling channel.
connVars == <<cfInit, sockets, announces>>
\* The pre-join page's preview.
previewVars == <<pjRuns, nAcquires, pjStream, pjLive, pjTrack, audioEnabled, videoEnabled>>
\* The pages before the recording page.
entryVars == <<pendingRoom, createCall, previewVars>>
\* The state beside the recording page's stores: clocks, the connection run and
\* the pages before the recording page.
\* useMediaDevices and the platform's device set.
deviceVars == <<platformDevices, enumRuns, nEnums, devices, loading, devicesError>>
sideVars == <<frameTime, connVars, entryVars, deviceVars>>
roomVars == <<storeVars, isLeaving, joinVars, teardown, recordingTime, sideVars>>
streamVars == <<audioDev, videoDev, released>>
trackVars == <<streamVars, monitor, lastSent>>
mediaVars == <<media, audioTrack, videoTrack, trackVars>>
sigVars == <<sessionToParticipant, ws, handlers, nDelivered, diag, lastSnap>>
recVars == <<isRecording, participantsRecording, openRecorders, error, recs, nRecCalls, lastRecCmd>>
swapVars == <<swaps, nSwaps>>

\* isRecordingRef: the effect that copies isRecording into the ref runs with the
\* render that follows the store update, before any later message is handled.
isRecordingRef == isRecording

\* No entry of a snapshot is being subscribed.
NoEntry == [participantId |-> NoId, participantName |-> "", sessionId |-> Absent, tracks |-> 0]
IdleHandler == [pc |-> "idle", entries |-> << >>, awaited |-> NoEntry]
IdleInit == [pc |-> "idle", isCancelled |-> FALSE]
IdleRec == [pc |-> "idle", snapshot |-> << >>, i |-> 0, localStream |-> FALSE]
IdleSwap == [pc |-> "idle", kind |-> "none", isMuted |-> FALSE, isVideoOn |-> FALSE]
NoSnap == [expected |-> << >>, slot |-> 0]
NoSettings == [audioEnabled |-> FALSE, videoEnabled |-> FALSE]
IdleJoin == [pc |-> "idle", page |-> "none", settings |-> NoSettings]
IdleRun == [pc |-> "idle", cancelled |-> FALSE]
\* useState<MediaDeviceInfo[]>([]): the list before any enumeration.
NoDevices == "none"
\* The device sets the platform can have, each named by one letter.
DeviceSets == {"A", "B"}
IdleEnum == [pc |-> "idle", read |-> NoDevices]
NoPending == [stored |-> FALSE, isHost |-> FALSE]
NoRoom == [stored |-> FALSE, isHost |-> FALSE, mediaSettings |-> NoSettings]
StoredRoom(host, settings) == [stored |-> TRUE, isHost |-> host, mediaSettings |-> settings]
MonitorOff == [running |-> FALSE, dev |-> 0, lastUpdateTime |-> 0]
MonitorOn(dev) == [running |-> TRUE, dev |-> dev, lastUpdateTime |-> 0]
EmptyTable == [s \in SessionIds |-> NoId]

\* ------------------------------------------------------- ws.onmessage cases
\* A handler that takes no id for the local participant's.
NamesLocalNever(id) == FALSE

\* participantId === roomInfo.participantId: the message names the local
\* participant.
NamesLocal(id) == id = LocalId

\* An announce that replaces the record of a participant already in the room.
AnnounceParticipantsUpsert(ps, m) ==
    IF m.participantId = LocalId THEN ps
    ELSE IF m.participantId \in IdSet(ps)
         THEN [i \in DOMAIN ps |-> IF ps[i].id = m.participantId
                                      THEN RemoteParticipant(m.participantId, m.participantName)
                                      ELSE ps[i]]
         ELSE addParticipant(ps, RemoteParticipant(m.participantId, m.participantName))

\* case 'cloudflare-session': the table entry is set and the participant added
\* before the subscription is awaited; nothing follows the await.
AnnounceParticipants(ps, m) ==
    IF NamesLocal(m.participantId) THEN ps
    ELSE addParticipant(ps, RemoteParticipant(m.participantId, m.participantName))

AnnounceTable(tbl, m) ==
    IF NamesLocal(m.participantId) THEN tbl
    ELSE [tbl EXCEPT ![m.sessionId] = m.participantId]

\* case 'participant-left' / 'leave': message.participantId || message.from.
LeftId(m) == IF m.participantId # Absent THEN m.participantId ELSE m.from

LeftIgnored(m) == LeftId(m) = Absent \/ NamesLocal(LeftId(m))

LeftParticipants(ps, m) ==
    IF LeftIgnored(m) \/ removeThrows(LeftId(m)) THEN ps
    ELSE removeParticipant(ps, LeftId(m))

\* A handler that tests the recording flag the wrong way round.
LeftStopsRecorderInverted(m, recording, recorded) ==
    /\ ~LeftIgnored(m)
    /\ ~removeThrows(LeftId(m))
    /\ ~recording
    /\ LeftId(m) \in recorded

\* Whether the case goes on to stop the participant's recorder: it got past
\* removeParticipant, a recording is on and the participant is being recorded.
LeftStopsRecorder(m, recording, recorded) ==
    /\ ~LeftIgnored(m)
    /\ ~removeThrows(LeftId(m))
    /\ recording
    /\ LeftId(m) \in recorded

\* A handler that registers the participant a track-state message names.
TrackStateUpsert(ps, m) ==
    LET qs == addParticipant(ps, RemoteParticipant(m.participantId, "Ann")) IN
    IF m.kind = "video" THEN updateParticipantVideo(qs, m.participantId, m.enabled)
    ELSE updateParticipantMuted(qs, m.participantId, ~m.enabled)

\* case 'track-state'.
TrackStateParticipants(ps, m) ==
    IF m.kind = "video" THEN updateParticipantVideo(ps, m.participantId, m.enabled)
    ELSE IF m.kind = "audio" THEN updateParticipantMuted(ps, m.participantId, ~m.enabled)
    ELSE ps

\* A loop that leaves at the entry of the local participant instead of skipping it.
RECURSIVE SnapshotRunBreak(_, _)
SnapshotRunBreak(ps, entries) ==
    IF entries = << >> THEN [participants |-> ps, entries |-> << >>, suspended |-> FALSE]
    ELSE LET p == Head(entries) IN
         IF p.participantId = LocalId THEN [participants |-> ps, entries |-> << >>, suspended |-> FALSE]
         ELSE LET ps2 == addParticipant(ps, RemoteParticipant(p.participantId, p.participantName)) IN
              IF p.sessionId # Absent /\ p.tracks > 0
              THEN [participants |-> ps2, entries |-> Tail(entries), suspended |-> TRUE]
              ELSE SnapshotRunBreak(ps2, Tail(entries))

\* case 'existing-participants': the loop over the entries still to handle, up
\* to its next await. The result is the participant list, the entries left, and
\* whether the handler is suspended in subscribeToParticipant.
RECURSIVE SnapshotRun(_, _)
SnapshotRun(ps, entries) ==
    IF entries = << >> THEN [participants |-> ps, entries |-> << >>, suspended |-> FALSE]
    ELSE LET p == Head(entries) IN
         IF NamesLocal(p.participantId) THEN SnapshotRun(ps, Tail(entries))
         ELSE LET ps2 == addParticipant(ps, RemoteParticipant(p.participantId, p.participantName)) IN
              IF p.sessionId # Absent /\ p.tracks > 0
              THEN [participants |-> ps2, entries |-> Tail(entries), suspended |-> TRUE]
              ELSE SnapshotRun(ps2, Tail(entries))

\* The same loop with every subscription resolving at once.
RECURSIVE SnapshotAll(_, _)
SnapshotAll(ps, entries) ==
    LET r == SnapshotRun(ps, entries) IN
    IF r.suspended THEN SnapshotAll(r.participants, r.entries) ELSE r.participants

\* A message handled with no suspension: the fold of the specification.
FoldParticipants(ps, m) ==
    CASE m.type = "cloudflare-session" -> AnnounceParticipants(ps, m)
      [] m.type \in {"participant-left", "leave"} -> LeftParticipants(ps, m)
      [] m.type = "track-state" -> TrackStateParticipants(ps, m)
      [] m.type = "existing-participants" -> SnapshotAll(ps, m.participants)
      [] OTHER -> ps

FoldTable(tbl, m) ==
    IF m.type = "cloudflare-session" THEN AnnounceTable(tbl, m) ELSE tbl

Fold(st, m) ==
    [participants |-> FoldParticipants(st.participants, m), table |-> FoldTable(st.table, m)]

\* The first occurrences, in order, of the ids of entries that are neither the
\* local id nor in base.
RECURSIVE NewIds(_, _)
NewIds(entries, base) ==
    IF entries = << >> THEN << >>
    ELSE LET id == Head(entries).participantId IN
         IF id = LocalId \/ id \in base THEN NewIds(Tail(entries), base)
         ELSE <<id>> \o NewIds(Tail(entries), base \cup {id})

\* The kind of a message and the participant id it names, for the history; of a
\* snapshot, the local id if an entry names it.
Kind(m) == IF m.type \in {"participant-left", "leave"} THEN "left" ELSE m.type

MsgId(m) ==
    CASE m.type \in {"cloudflare-session", "track-state"} -> m.participantId
      [] m.type \in {"participant-left", "leave"} -> LeftId(m)
      [] m.type = "existing-participants" ->
           IF \E i \in DOMAIN m.participants : m.participants[i].participantId = LocalId
           THEN LocalId ELSE NoId
      [] OTHER -> NoId


\* History of the operation that acted last: its name, the slot of the call, and
\* for a message the participant id it names and whether that participant was
\* in the room when the message arrived.
Act(op, slot) == [op |-> op, slot |-> slot, id |-> NoId, known |-> FALSE, emitted |-> FALSE]

MsgAct(m, slot, ps) ==
    [op |-> Kind(m), slot |-> slot, id |-> MsgId(m), known |-> MsgId(m) \in IdSet(ps),
     emitted |-> FALSE]

\* A local toggle, and whether it sent a track-state command.
ToggleAct(op, sent) == [Act(op, 0) EXCEPT !.emitted = sent]

Self == participants[Find(participants, SelfId)]
HasSelf == SelfId \in IdSet(participants)

\* The room store's localStream is set once the initial getUserMedia resolved.
localStream == media = "ready"

\* ------------------------------------------------------------------- Init
\* The page is mounted on a room read from session storage: the store holds the
\* local participant only, no media is acquired yet, nothing is recording.
Init ==
    /\ inRoom = TRUE
    /\ isLeaving = FALSE
    /\ isHost \in BOOLEAN
    /\ mediaSettings \in [audioEnabled : BOOLEAN, videoEnabled : BOOLEAN]
    /\ participants = <<SelfParticipant(isHost, mediaSettings.audioEnabled, mediaSettings.videoEnabled)>>
    /\ sessionToParticipant = EmptyTable
    /\ media = "pending"
    /\ audioTrack = "none"
    /\ videoTrack = "none"
    /\ ws = "none"
    /\ handlers = [k \in 1..MaxMsgs |-> IdleHandler]
    /\ nDelivered = 0
    /\ diag = "none"
    /\ isRecording = FALSE
    /\ participantsRecording = {}
    /\ openRecorders = {}
    /\ error = ""
    /\ recs = [k \in 1..MaxRecCalls |-> IdleRec]
    /\ nRecCalls = 0
    /\ swaps = [k \in 1..MaxSwaps |-> IdleSwap]
    /\ nSwaps = 0
    /\ serial = [participants |-> participants, table |-> sessionToParticipant]
    /\ lastSnap = NoSnap
    /\ lastRecCmd = "none"
    /\ lastAct = Act("init", 0)
    /\ audioDev = 0
    /\ videoDev = 0
    /\ released = {}
    /\ monitor = MonitorOff
    /\ lastSent = [audio |-> "none", video |-> "none"]
    /\ route = "recording"
    /\ currentRoom = StoredRoom(isHost, mediaSettings)
    /\ isJoining = FALSE
    /\ joinError = ""
    /\ showPreJoin = FALSE
    /\ joinCall = IdleJoin
    /\ nJoins = 0
    /\ teardown = << >>
    /\ recordingTime = 0
    /\ frameTime = 0
    /\ cfInit = IdleInit
    /\ sockets = 0
    /\ announces = 0
    /\ pendingRoom = NoPending
    /\ createCall = "idle"
    /\ pjRuns = [k \in 1..MaxAcquires |-> IdleRun]
    /\ nAcquires = 0
    /\ pjStream = 0
    /\ pjLive = {}
    /\ pjTrack = [audio |-> FALSE, video |-> FALSE]
    /\ audioEnabled = TRUE
    /\ videoEnabled = TRUE
    /\ platformDevices = "A"
    /\ enumRuns = [k \in 1..MaxEnums |-> IdleEnum]
    /\ nEnums = 0
    /\ devices = NoDevices
    /\ loading = TRUE
    /\ devicesError = FALSE

\* ----------------------------------------------------------- media, socket
\* initializeMedia runs once the store holds mediaSettings, that is once the
\* room is set; its getUserMedia may still be pending when the user leaves.
MediaRequested == inRoom \/ isLeaving

\* initializeMedia after getUserMedia resolved. With neither audio nor video
\* requested getUserMedia rejects.
InitializeMediaOk ==
    /\ MediaRequested
    /\ media = "pending"
    /\ mediaSettings.audioEnabled \/ mediaSettings.videoEnabled
    /\ media' = "ready"
    /\ audioTrack' = IF mediaSettings.audioEnabled THEN "on" ELSE "none"
    /\ videoTrack' = IF mediaSettings.videoEnabled THEN "on" ELSE "none"
    /\ participants' = updateParticipantMuted(
                           updateParticipantVideo(participants, SelfId, mediaSettings.videoEnabled),
                           SelfId, ~mediaSettings.audioEnabled)
    /\ serial' = [serial EXCEPT !.participants = updateParticipantMuted(
                           updateParticipantVideo(@, SelfId, mediaSettings.videoEnabled),
                           SelfId, ~mediaSettings.audioEnabled)]
    /\ monitor' = IF mediaSettings.audioEnabled THEN MonitorOn(0) ELSE monitor
    /\ lastAct' = Act("initializeMedia", 0)
    /\ UNCHANGED <<roomVars, streamVars, lastSent, sigVars, recVars, swapVars>>

\* initializeMedia's catch.
InitializeMediaFail ==
    /\ MediaRequested
    /\ media = "pending"
    /\ media' = "failed"
    /\ participants' = updateParticipantVideo(updateParticipantMuted(participants, SelfId, TRUE), SelfId, FALSE)
    /\ serial' = [serial EXCEPT !.participants =
                      updateParticipantVideo(updateParticipantMuted(@, SelfId, TRUE), SelfId, FALSE)]
    /\ lastAct' = Act("initializeMediaFailed", 0)
    /\ UNCHANGED <<audioTrack, videoTrack, trackVars, roomVars, sigVars, recVars, swapVars>>

\* ------------------------------------------------- initializeCloudflare
\* The effect runs once the store has a room and a local stream and
\* isInitializedRef is unset; initializeCloudflare runs up to cloudflareConnect.
initializeCloudflare ==
    /\ inRoom
    /\ localStream
    /\ currentRoom.stored
    /\ cfInit.pc = "idle"
    /\ cfInit' = [pc |-> "connect", isCancelled |-> FALSE]
    /\ lastAct' = Act("initializeCloudflare", 0)
    /\ UNCHANGED <<storeVars, isLeaving, joinVars, teardown, recordingTime, frameTime, deviceVars, sockets,
                   announces, entryVars, mediaVars, participants, sigVars, recVars, swapVars, serial>>

\* A run that goes on after its effect was cleaned up.
CancelIgnored(isCancelled) == FALSE

\* if (isCancelled) return, after each of the two awaits.
ReturnsIfCancelled(isCancelled) == isCancelled

\* cloudflareConnect resolved.
CloudflareConnectResolve ==
    /\ cfInit.pc = "connect"
    /\ cfInit' = [cfInit EXCEPT !.pc = IF ReturnsIfCancelled(cfInit.isCancelled)
                                        THEN "returned" ELSE "publish"]
    /\ lastAct' = Act("cloudflareConnected", 0)
    /\ UNCHANGED <<storeVars, isLeaving, joinVars, teardown, recordingTime, frameTime, deviceVars, sockets,
                   announces, entryVars, mediaVars, participants, sigVars, recVars, swapVars, serial>>

\* cloudflareConnect or publishTracks rejected: the catch only logs, and
\* isInitializedRef stays set.
CloudflareReject ==
    /\ cfInit.pc \in {"connect", "publish"}
    /\ cfInit' = [cfInit EXCEPT !.pc = "failed"]
    /\ lastAct' = Act("cloudflareFailed", 0)
    /\ UNCHANGED <<storeVars, isLeaving, joinVars, teardown, recordingTime, frameTime, deviceVars, sockets,
                   announces, entryVars, mediaVars, participants, sigVars, recVars, swapVars, serial>>

\* publishTracks resolved: the WebSocket is created and stored in wsRef, and its
\* onopen sends the session announce.
ConnectSignaling ==
    /\ cfInit.pc = "publish"
    /\ IF ReturnsIfCancelled(cfInit.isCancelled)
       THEN /\ cfInit' = [cfInit EXCEPT !.pc = "returned"]
            /\ lastAct' = Act("connectCancelled", 0)
            /\ UNCHANGED <<ws, sockets, announces>>
       ELSE /\ cfInit' = [cfInit EXCEPT !.pc = "done"]
            /\ ws' = "open"
            /\ sockets' = sockets + 1
            /\ announces' = announces + 1
            /\ lastAct' = Act("connect", 0)
    /\ UNCHANGED <<storeVars, isLeaving, joinVars, teardown, recordingTime, frameTime, deviceVars, entryVars,
                   mediaVars, participants, sessionToParticipant, handlers, nDelivered, diag, lastSnap,
                   recVars, swapVars, serial>>

\* ----------------------------------------------------------- ws.onmessage
\* One call of ws.onmessage, up to its first await or its end.
\* A message whose type no case of the switch names: the switch has no default
\* case that throws, so nothing is reported.
UnknownDiagThrows(m) == "UnknownType"

UnknownDiag(m) == "none"

\* No case of the switch calls startRecording or stopRecording of the recording
\* store: isRecording after a message is isRecording before it.
MessageStopsRecording(rec, m) == IF m.type \in {"participant-left", "leave"} THEN FALSE ELSE rec

MessageIsRecording(rec, m) == rec

Deliver(m) ==
    /\ ws = "open"
    /\ nDelivered < MaxMsgs
    /\ nDelivered' = nDelivered + 1
    /\ serial' = Fold(serial, m)
    /\ lastAct' = MsgAct(m, nDelivered + 1, participants)
    /\ CASE m.type = "cloudflare-session" ->
              /\ participants' = AnnounceParticipants(participants, m)
              /\ sessionToParticipant' = AnnounceTable(sessionToParticipant, m)
              /\ diag' = "none"
              /\ lastSnap' = NoSnap
              /\ UNCHANGED <<handlers, participantsRecording, openRecorders>>
         [] m.type \in {"participant-left", "leave"} ->
              /\ participants' = LeftParticipants(participants, m)
              /\ diag' = IF ~LeftIgnored(m) /\ removeThrows(LeftId(m)) THEN "InvalidOperation" ELSE "none"
              /\ IF LeftStopsRecorder(m, isRecordingRef, participantsRecording)
                 THEN /\ openRecorders' = openRecorders \ {LeftId(m)}
                      /\ participantsRecording' = participantsRecording \ {LeftId(m)}
                 ELSE UNCHANGED <<openRecorders, participantsRecording>>
              /\ lastSnap' = NoSnap
              /\ UNCHANGED <<handlers, sessionToParticipant>>
         [] m.type = "track-state" ->
              /\ participants' = TrackStateParticipants(participants, m)
              /\ diag' = "none"
              /\ lastSnap' = NoSnap
              /\ UNCHANGED <<handlers, sessionToParticipant, participantsRecording, openRecorders>>
         [] m.type = "existing-participants" ->
              LET r == SnapshotRun(participants, m.participants) IN
              /\ participants' = r.participants
              /\ handlers' = [handlers EXCEPT ![nDelivered + 1] =
                     IF r.suspended
                     THEN [pc |-> "await", entries |-> r.entries,
                           awaited |-> m.participants[Len(m.participants) - Len(r.entries)]]
                     ELSE IdleHandler]
              /\ diag' = "none"
              /\ lastSnap' = IF \A k \in DOMAIN handlers : handlers[k].pc = "idle"
                              THEN [expected |-> Ids(participants) \o NewIds(m.participants, IdSet(participants)),
                                    slot |-> nDelivered + 1]
                              ELSE NoSnap
              /\ UNCHANGED <<sessionToParticipant, participantsRecording, openRecorders>>
         [] OTHER ->
              /\ diag' = UnknownDiag(m)
              /\ lastSnap' = NoSnap
              /\ UNCHANGED <<participants, handlers, sessionToParticipant, participantsRecording, openRecorders>>
    /\ isRecording' = MessageIsRecording(isRecording, m)
    /\ UNCHANGED <<roomVars, mediaVars, ws, error, recs, nRecCalls, lastRecCmd, swapVars>>

\* ------------------------------------------------------ malformed messages
\* An entry of a snapshot that is null: reading p.participantId throws.
NullEntry == [null |-> TRUE]

\* Payloads the handler was not written for: text that is not JSON, a snapshot
\* without its participants list, a snapshot with a null entry after an entry
\* that carries no session (so the loop never awaits), and a session announce
\* without participantId and tracks.
MalformedMsgs ==
    {[type |-> "unparseable"]}
    \cup {[type |-> "existing-participants"]}
    \cup {[type |-> "existing-participants",
           participants |-> <<[participantId |-> id, participantName |-> "Ann",
                               sessionId |-> Absent, tracks |-> 0], NullEntry>>] : id \in {"p1"}}
    \cup {[type |-> "cloudflare-session", participantId |-> Absent, participantName |-> "Ann",
           sessionId |-> "s1", tracks |-> 0]}

\* The loop of case 'existing-participants' over a list with null entries: the
\* entries before the first null one are added, then the read of the null entry
\* throws into the catch of the handler.
RECURSIVE SnapshotRunThrowing(_, _)
SnapshotRunThrowing(ps, entries) ==
    IF entries = << >> THEN [participants |-> ps, thrown |-> FALSE]
    ELSE LET p == Head(entries) IN
         IF DOMAIN p = DOMAIN NullEntry THEN [participants |-> ps, thrown |-> TRUE]
         ELSE IF p.participantId = LocalId THEN SnapshotRunThrowing(ps, Tail(entries))
         ELSE SnapshotRunThrowing(addParticipant(ps, RemoteParticipant(p.participantId, p.participantName)),
                                  Tail(entries))

\* What the try block did to the participant list before it ended or threw.
MalformedParticipants(ps, m) ==
    CASE m.type = "unparseable" -> ps
      [] m.type = "existing-participants" ->
             IF "participants" \notin DOMAIN m THEN ps
             ELSE SnapshotRunThrowing(ps, m.participants).participants
      [] m.type = "cloudflare-session" -> AnnounceParticipants(ps, m)

MalformedTable(tbl, m) ==
    IF m.type = "cloudflare-session" THEN AnnounceTable(tbl, m) ELSE tbl

\* What the catch logs: JSON.parse throws a SyntaxError, iterating an absent list
\* or reading a field of null a TypeError; the announce without an id throws nothing.
MalformedDiag(m) ==
    CASE m.type = "unparseable" -> "SyntaxError"
      [] m.type = "existing-participants" -> "TypeError"
      [] m.type = "cloudflare-session" -> "none"

DeliverMalformed(m) ==
    /\ ws = "open"
    /\ nDelivered < MaxMsgs
    /\ nDelivered' = nDelivered + 1
    /\ participants' = MalformedParticipants(participants, m)
    /\ sessionToParticipant' = MalformedTable(sessionToParticipant, m)
    /\ diag' = MalformedDiag(m)
    /\ serial' = [participants |-> MalformedParticipants(serial.participants, m),
                  table |-> MalformedTable(serial.table, m)]
    /\ lastSnap' = NoSnap
    /\ lastAct' = Act("malformed", nDelivered + 1)
    /\ UNCHANGED <<roomVars, mediaVars, ws, handlers, recVars, swapVars>>

\* The continuation of case 'existing-participants' after subscribeToParticipant.
ResumeSnapshot(k) ==
    /\ handlers[k].pc = "await"
    /\ LET r == SnapshotRun(participants, handlers[k].entries) IN
       /\ participants' = r.participants
       /\ handlers' = [handlers EXCEPT ![k] =
              IF r.suspended
              THEN [@ EXCEPT !.entries = r.entries,
                             !.awaited = handlers[k].entries[Len(handlers[k].entries) - Len(r.entries)]]
              ELSE IdleHandler]
    /\ lastAct' = Act("resumeSnapshot", k)
    /\ UNCHANGED <<roomVars, mediaVars, sessionToParticipant, ws, nDelivered, diag, lastSnap,
                   recVars, swapVars, serial>>


\* The sessions subscribeToParticipant was called for and may deliver a track:
\* those of the announces handled, which wrote the table before subscribing, and
\* those a snapshot handler is suspended in.
Subscribed(sid) ==
    \/ sessionToParticipant[sid] # NoId
    \/ \E k \in DOMAIN handlers : handlers[k].pc = "await" /\ handlers[k].awaited.sessionId = sid

\* The place of a session id among the session ids, for the history.
SessionIndex(sid) == IF sid = "s1" THEN 1 ELSE 2

\* sessionToParticipantRef.current.get(sessionId) || sessionId.
TrackParticipant(tbl, sid) == IF tbl[sid] # NoId THEN tbl[sid] ELSE sid

\* onTrackAdded: a track of a subscribed session arrived; the flag of the
\* participant the table gives for the session, or of the raw session id, is set
\* from the track.
onTrackAdded(sid, kind, enabled) ==
    /\ inRoom
    /\ Subscribed(sid)
    /\ LET participantId == TrackParticipant(sessionToParticipant, sid) IN
       /\ participants' = IF kind = "video"
                           THEN updateParticipantVideo(participants, participantId, enabled)
                           ELSE updateParticipantMuted(participants, participantId, ~enabled)
       /\ lastAct' = [Act("trackAdded", SessionIndex(sid)) EXCEPT
                          !.id = participantId, !.known = participantId \in IdSet(participants)]
    /\ UNCHANGED <<roomVars, mediaVars, sigVars, recVars, swapVars, serial>>

\* A remote participant's media source becomes available (participant.stream);
\* the page reads it when a recording starts.
AttachStream(id) ==
    /\ inRoom
    /\ id \in IdSet(participants) \ {SelfId}
    /\ ~participants[Find(participants, id)].stream
    /\ participants' = [participants EXCEPT ![Find(participants, id)].stream = TRUE]
    /\ serial' = [serial EXCEPT !.participants =
                      [i \in DOMAIN @ |-> IF @[i].id = id THEN [@[i] EXCEPT !.stream = TRUE] ELSE @[i]]]
    /\ lastAct' = Act("attachStream", 0)
    /\ UNCHANGED <<roomVars, mediaVars, sigVars, recVars, swapVars>>

\* ---------------------------------------------------------- local toggles
\* The toggles send only if wsRef.current?.readyState === WebSocket.OPEN.
TrackStateSent(socket) == socket = "open"

TrackEnabled(track, enabled) ==
    IF track = "none" THEN "none" ELSE IF enabled THEN "on" ELSE "off"

handleToggleMute ==
    /\ inRoom
    /\ HasSelf
    /\ LET newMuted == ~Self.isMuted
           silenced == IF localStream /\ audioTrack # "none" /\ newMuted
                       THEN updateParticipantSpeaking(participants, SelfId, FALSE)
                       ELSE participants
           silencedSerial == IF localStream /\ audioTrack # "none" /\ newMuted
                             THEN updateParticipantSpeaking(serial.participants, SelfId, FALSE)
                             ELSE serial.participants
       IN /\ audioTrack' = IF localStream THEN TrackEnabled(audioTrack, ~newMuted) ELSE audioTrack
          /\ monitor' = IF localStream /\ audioTrack # "none"
                         THEN IF newMuted THEN MonitorOff ELSE MonitorOn(audioDev)
                         ELSE monitor
          /\ participants' = updateParticipantMuted(silenced, SelfId, newMuted)
          /\ serial' = [serial EXCEPT !.participants = updateParticipantMuted(silencedSerial, SelfId, newMuted)]
          /\ lastSent' = IF TrackStateSent(ws)
                          THEN [lastSent EXCEPT !.audio = IF newMuted THEN "off" ELSE "on"]
                          ELSE lastSent
    /\ lastAct' = ToggleAct("toggleMute", TrackStateSent(ws))
    /\ UNCHANGED <<roomVars, media, videoTrack, streamVars, sigVars, recVars, swapVars>>

handleToggleVideo ==
    /\ inRoom
    /\ HasSelf
    /\ LET newVideoOn == ~Self.isVideoOn
       IN /\ videoTrack' = IF localStream THEN TrackEnabled(videoTrack, newVideoOn) ELSE videoTrack
          /\ participants' = updateParticipantVideo(participants, SelfId, newVideoOn)
          /\ serial' = [serial EXCEPT !.participants = updateParticipantVideo(@, SelfId, newVideoOn)]
          /\ lastSent' = IF TrackStateSent(ws)
                          THEN [lastSent EXCEPT !.video = IF newVideoOn THEN "on" ELSE "off"]
                          ELSE lastSent
    /\ lastAct' = ToggleAct("toggleVideo", TrackStateSent(ws))
    /\ UNCHANGED <<roomVars, media, audioTrack, streamVars, monitor, sigVars, recVars, swapVars>>

\* ------------------------------------------------------ device hot-swap
\* localStream's track of a kind, as the set of its [kind, dev] (empty without one).
StreamTrack(kind) ==
    IF kind = "audio"
    THEN IF audioTrack = "none" THEN {} ELSE {[kind |-> "audio", dev |-> audioDev]}
    ELSE IF videoTrack = "none" THEN {} ELSE {[kind |-> "video", dev |-> videoDev]}

\* A device change that stops the old track before it asks for the new one.
ReleasedBeforeAcquire(rel, old) == rel \cup old

\* The device change up to its await stops nothing.
ReleasedAtRequest(rel, old) == rel

\* A catch that drops the old track when the acquisition failed.
ReleasedOnFailure(rel, old) == rel \cup old

\* The device change's catch only logs.
ReleasedInCatch(rel, old) == rel

\* handleAudioInputChange / handleVideoInputChange up to getUserMedia: the call
\* keeps the participants of the render it was created in.
handleInputChange(kind) ==
    /\ inRoom
    /\ localStream
    /\ HasSelf
    /\ nSwaps < MaxSwaps
    /\ nSwaps' = nSwaps + 1
    /\ swaps' = [swaps EXCEPT ![nSwaps + 1] =
           [pc |-> "acquiring", kind |-> kind, isMuted |-> Self.isMuted, isVideoOn |-> Self.isVideoOn]]
    /\ released' = ReleasedAtRequest(released, StreamTrack(kind))
    /\ lastAct' = Act("inputChange", nSwaps + 1)
    /\ UNCHANGED <<roomVars, media, audioTrack, videoTrack, audioDev, videoDev, monitor, lastSent,
                   participants, sigVars, recVars, serial>>

\* The new track's enabled flag in handleAudioInputChange: !self?.isMuted.
NewAudioEnabled(sw) == ~sw.isMuted

\* The new track's enabled flag in handleVideoInputChange: self?.isVideoOn ?? true.
NewVideoEnabled(sw) == sw.isVideoOn

\* getUserMedia resolved: the old track of the kind is removed and stopped, the
\* new one added with its enabled flag.
InputChangeResolve(k) ==
    /\ swaps[k].pc = "acquiring"
    /\ IF swaps[k].kind = "audio"
       THEN /\ audioTrack' = TrackEnabled("on", NewAudioEnabled(swaps[k]))
            /\ UNCHANGED videoTrack
       ELSE /\ videoTrack' = TrackEnabled("on", NewVideoEnabled(swaps[k]))
            /\ UNCHANGED audioTrack
    /\ IF swaps[k].kind = "audio"
       THEN /\ audioDev' = k
            /\ monitor' = IF NewAudioEnabled(swaps[k]) THEN MonitorOn(k) ELSE monitor
            /\ UNCHANGED videoDev
       ELSE /\ videoDev' = k
            /\ UNCHANGED <<audioDev, monitor>>
    /\ released' = released \cup StreamTrack(swaps[k].kind)
    /\ swaps' = [swaps EXCEPT ![k] = [@ EXCEPT !.pc = "swapped"]]
    /\ lastAct' = Act("inputChanged", k)
    /\ UNCHANGED <<roomVars, media, lastSent, participants, sigVars, recVars, nSwaps, serial>>

\* getUserMedia rejected: the catch only logs.
InputChangeReject(k) ==
    /\ swaps[k].pc = "acquiring"
    /\ swaps' = [swaps EXCEPT ![k] = [@ EXCEPT !.pc = "rejected"]]
    /\ released' = ReleasedInCatch(released, StreamTrack(swaps[k].kind))
    /\ lastAct' = Act("inputChangeFailed", k)
    /\ UNCHANGED <<roomVars, media, audioTrack, videoTrack, audioDev, videoDev, monitor, lastSent,
                   participants, sigVars, recVars, nSwaps, serial>>


\* ------------------------------------------------------ handleToggleRecording
\* The media source the start loop reads for a participant of its snapshot:
\* participant.id === 'self' ? localStream : participant.stream.
HasSource(rec, j) ==
    IF rec.snapshot[j].id = SelfId THEN rec.localStream ELSE rec.snapshot[j].stream

\* The first participant at or after index j the start loop does not skip
\* (Len + 1 when there is none).
RECURSIVE NextSource(_, _)
NextSource(rec, j) ==
    IF j > Len(rec.snapshot) THEN j
    ELSE IF HasSource(rec, j) THEN j ELSE NextSource(rec, j + 1)

\* The ids of the participants with a media source among the first n of the snapshot.
SourcesUpTo(rec, n) ==
    {rec.snapshot[j].id : j \in {j \in 1..Len(rec.snapshot) : j <= n /\ HasSource(rec, j)}}

\* The record button is rendered, and the 'r' shortcut handled, for the host only.
RecordControlOfferedToAll(host) == TRUE

RecordControlOffered(host) == host

\* The call keeps the isRecording, participants and localStream of its render.
handleToggleRecording ==
    /\ inRoom
    /\ RecordControlOffered(isHost)
    /\ nRecCalls < MaxRecCalls
    /\ nRecCalls' = nRecCalls + 1
    /\ IF isRecording
       THEN \* a close is requested for every participant of the snapshot at once
            /\ recs' = [recs EXCEPT ![nRecCalls + 1] =
                   [pc |-> "stopping", snapshot |-> participants, i |-> 0, localStream |-> localStream]]
            /\ openRecorders' = openRecorders \ IdSet(participants)
            /\ lastRecCmd' = "stop"
            /\ lastAct' = Act("stopRequested", nRecCalls + 1)
       ELSE /\ recs' = [recs EXCEPT ![nRecCalls + 1] =
                   [pc |-> "starting", snapshot |-> participants, i |-> 0, localStream |-> localStream]]
            /\ lastRecCmd' = "start"
            /\ lastAct' = Act("startRequested", nRecCalls + 1)
            /\ UNCHANGED openRecorders
    /\ UNCHANGED <<roomVars, mediaVars, participants, sigVars, isRecording, participantsRecording,
                   error, swapVars, serial>>

\* The 'r' key pressed by a participant who is not the host: the key handler
\* calls nothing.
recordKeyIgnored ==
    /\ inRoom
    /\ ~RecordControlOffered(isHost)
    /\ lastAct.op # "recordKeyIgnored"
    /\ lastAct' = Act("recordKeyIgnored", 0)
    /\ UNCHANGED <<roomVars, mediaVars, participants, sigVars, recVars, swapVars, serial>>

\* The recording timer: while isRecording, an interval calls incrementRecordingTime
\* every second; the effect's cleanup clears it when isRecording turns false or
\* the page unmounts.
TimerRunning == inRoom /\ isRecording

incrementRecordingTime(t) == t + 1

Tick ==
    /\ TimerRunning
    /\ recordingTime < MaxTicks
    /\ recordingTime' = incrementRecordingTime(recordingTime)
    /\ lastAct' = Act("tick", recordingTime + 1)
    /\ UNCHANGED <<storeVars, isLeaving, joinVars, teardown, sideVars, mediaVars, participants,
                   sigVars, recVars, swapVars, serial>>

\* Stop path: every close and Recording.stopRecording resolved.
StopResolve(k) ==
    /\ recs[k].pc = "stopping"
    /\ isRecording' = FALSE
    /\ participantsRecording' = {}
    /\ error' = "saved"
    /\ recs' = [recs EXCEPT ![k] = [@ EXCEPT !.pc = "stopped"]]
    /\ lastAct' = Act("stopped", k)
    /\ UNCHANGED <<roomVars, mediaVars, participants, sigVars, openRecorders, nRecCalls,
                   lastRecCmd, swapVars, serial>>

\* Stop path: a per-participant close ("close") or Recording.stopRecording
\* ("finalize") rejected; the catch sets the banner.
StopReject(k, what) ==
    /\ recs[k].pc = "stopping"
    /\ error' = "stopFailed"
    /\ recs' = [recs EXCEPT ![k] = [@ EXCEPT !.pc = "stopFailed-" \o what]]
    /\ lastAct' = Act("stopFailed-" \o what, k)
    /\ UNCHANGED <<roomVars, mediaVars, participants, sigVars, isRecording, participantsRecording,
                   openRecorders, nRecCalls, lastRecCmd, swapVars, serial>>

\* Start path, after the loop: the store's startRecording().
StartFinished(rec) == [rec EXCEPT !.pc = "started"]

\* Start path: get_recording_directory and Recording.startRecording resolved; the
\* loop runs up to its first await.
StartSessionResolve(k) ==
    /\ recs[k].pc = "starting"
    /\ LET first == NextSource(recs[k], 1) IN
       IF first > Len(recs[k].snapshot)
       THEN /\ recs' = [recs EXCEPT ![k] = StartFinished([@ EXCEPT !.i = first])]
            /\ isRecording' = TRUE
            /\ lastAct' = Act("started", k)
       ELSE /\ recs' = [recs EXCEPT ![k] = [@ EXCEPT !.pc = "opening", !.i = first]]
            /\ lastAct' = Act("sessionStarted", k)
            /\ UNCHANGED isRecording
    /\ UNCHANGED <<roomVars, mediaVars, participants, sigVars, participantsRecording, openRecorders,
                   error, nRecCalls, lastRecCmd, swapVars, serial>>

\* Start path: get_recording_directory or Recording.startRecording rejected.
StartSessionReject(k) ==
    /\ recs[k].pc = "starting"
    /\ error' = "startFailed"
    /\ recs' = [recs EXCEPT ![k] = [@ EXCEPT !.pc = "startFailed"]]
    /\ lastAct' = Act("startFailed", k)
    /\ UNCHANGED <<roomVars, mediaVars, participants, sigVars, isRecording, participantsRecording,
                   openRecorders, nRecCalls, lastRecCmd, swapVars, serial>>

\* Start path: addParticipantTrack and mediaRecorder.startRecording resolved for
\* participant i of the snapshot; the loop goes on to the next one with a source.
OpenResolve(k) ==
    /\ recs[k].pc = "opening"
    /\ LET id == recs[k].snapshot[recs[k].i].id
           next == NextSource(recs[k], recs[k].i + 1)
       IN /\ participantsRecording' = participantsRecording \cup {id}
          /\ openRecorders' = openRecorders \cup {id}
          /\ IF next > Len(recs[k].snapshot)
             THEN /\ recs' = [recs EXCEPT ![k] = StartFinished([@ EXCEPT !.i = next])]
                  /\ isRecording' = TRUE
                  /\ lastAct' = Act("started", k)
             ELSE /\ recs' = [recs EXCEPT ![k] = [@ EXCEPT !.i = next]]
                  /\ lastAct' = Act("opened", k)
                  /\ UNCHANGED isRecording
    /\ UNCHANGED <<roomVars, mediaVars, participants, sigVars, error, nRecCalls, lastRecCmd,
                   swapVars, serial>>

\* Start path: the open of participant i rejected; the catch sets the banner and
\* the call ends.
OpenReject(k) ==
    /\ recs[k].pc = "opening"
    /\ error' = "startFailed"
    /\ recs' = [recs EXCEPT ![k] = [@ EXCEPT !.pc = "openFailed"]]
    /\ lastAct' = Act("openFailed", k)
    /\ UNCHANGED <<roomVars, mediaVars, participants, sigVars, isRecording, participantsRecording,
                   openRecorders, nRecCalls, lastRecCmd, swapVars, serial>>

\* ------------------------------------------------------------ handleLeave
\* A leave that never touches the recording store.
LeaveIsRecordingKept(rec) == rec

\* if (isRecording) stopRecording(): the store's flag after handleLeave.
LeaveIsRecording(rec) == IF rec THEN FALSE ELSE rec

\* The steps of leaving in the order the code runs them: the body of
\* handleLeave, then the effect cleanups of the unmount it causes.
LeaveSteps(rec, hasStream, hasSocket) ==
    (IF rec THEN <<"stopRecording">> ELSE << >>)
    \o <<"cleanupVoiceDetection", "navigate", "leaveRoom", "removeCurrentRoom">>
    \o (IF hasStream THEN <<"stopTracks">> ELSE << >>)
    \o (IF hasSocket THEN <<"closeChannel">> ELSE << >>)

\* handleLeave with the unmount it causes: the store's stopRecording() when
\* recording, leaveRoom(), and the cleanup that closes the WebSocket.
handleLeave ==
    /\ inRoom
    /\ ~isLeaving
    /\ isLeaving' = TRUE
    /\ inRoom' = FALSE
    /\ isRecording' = LeaveIsRecording(isRecording)
    /\ monitor' = MonitorOff
    /\ released' = IF localStream
                    THEN released \cup StreamTrack("audio") \cup StreamTrack("video")
                    ELSE released
    /\ route' = "home"
    /\ currentRoom' = NoRoom
    /\ teardown' = LeaveSteps(isRecording, localStream, ws = "open")
    /\ participants' = leaveRoomParticipants
    /\ serial' = [serial EXCEPT !.participants = leaveRoomParticipants]
    /\ ws' = IF ws = "open" THEN "closed" ELSE ws
    /\ cfInit' = IF cfInit.pc = "idle" THEN cfInit ELSE [cfInit EXCEPT !.isCancelled = TRUE]
    /\ sockets' = IF ws = "open" THEN sockets - 1 ELSE sockets
    /\ lastSnap' = NoSnap
    /\ lastRecCmd' = "leave"
    /\ lastAct' = Act("leave", 0)
    /\ UNCHANGED <<isHost, mediaSettings, media, audioTrack, videoTrack, audioDev, videoDev,
                   lastSent, recordingTime, frameTime, deviceVars, announces, entryVars, isJoining, joinError, showPreJoin, joinCall, nJoins,
                   sessionToParticipant, handlers, nDelivered,
                   diag, participantsRecording, openRecorders, error, recs, nRecCalls, swapVars>>

\* handleLeave invoked again: isLeaving is set and the handler returns at once.
handleLeaveAgain ==
    /\ isLeaving
    /\ lastAct' = Act("leaveAgain", 0)
    /\ UNCHANGED <<roomVars, mediaVars, participants, sigVars, recVars, swapVars, serial>>

\* ------------------------------------------------------------ voice monitor
\* What the analyser hears: a level above SPEAKING_THRESHOLD needs a source whose
\* track is still localStream's audio track, enabled and not stopped.
SampledLive ==
    /\ audioTrack = "on"
    /\ audioDev = monitor.dev
    /\ [kind |-> "audio", dev |-> monitor.dev] \notin released

VOICE_UPDATE_INTERVAL == 100

\* The milliseconds between two animation frames: faster than the interval, and
\* at the interval.
FrameGaps == {40, 70, VOICE_UPDATE_INTERVAL}

\* A monitor that analyses every frame.
ThrottledNever(timestamp, lastUpdateTime) == FALSE

\* if (timestamp - lastUpdateTime < VOICE_UPDATE_INTERVAL): the frame only
\* requests the next one.
Throttled(timestamp, lastUpdateTime) == timestamp - lastUpdateTime < VOICE_UPDATE_INTERVAL

\* One animation frame of checkVoiceActivity, gap milliseconds after the one
\* before: past the throttle, updateParticipantSpeaking('self', average >
\* SPEAKING_THRESHOLD). loud is the level at the microphone.
checkVoiceActivity(gap, loud) ==
    /\ monitor.running
    /\ frameTime + gap <= MaxTime
    /\ frameTime' = frameTime + gap
    /\ IF Throttled(frameTime + gap, monitor.lastUpdateTime)
       THEN /\ lastAct' = Act("voiceFrameSkipped", frameTime + gap)
            /\ UNCHANGED <<participants, serial, monitor>>
       ELSE /\ monitor' = [monitor EXCEPT !.lastUpdateTime = frameTime + gap]
            /\ participants' = updateParticipantSpeaking(participants, SelfId, loud /\ SampledLive)
            /\ serial' = [serial EXCEPT !.participants =
                              updateParticipantSpeaking(@, SelfId, loud /\ SampledLive)]
            /\ lastAct' = Act("voiceSample", frameTime + gap)
    /\ UNCHANGED <<storeVars, isLeaving, joinVars, teardown, recordingTime, connVars, entryVars,
                   deviceVars, media, audioTrack, videoTrack, streamVars, lastSent, sigVars, recVars,
                   swapVars>>

\* ------------------------------------------------------------------ joining
\* What the join handlers do to sessionStorage's currentRoom before joinRoom
\* has answered, had they written it at once.
RoomAtRequestEager(room, settings) == StoredRoom(FALSE, settings)

\* The join handlers up to their await leave currentRoom alone.
RoomAtRequest(room, settings) == room

\* JoinRoomPage.handleJoinRoom up to getRoomInfo; valid is the outcome of the
\* two input validations.
handleJoinRoom(valid) ==
    /\ route = "join"
    /\ ~showPreJoin
    /\ ~isJoining
    /\ nJoins < MaxJoins
    /\ nJoins' = nJoins + 1
    /\ IF valid
       THEN /\ isJoining' = TRUE
            /\ joinError' = ""
            /\ joinCall' = [pc |-> "roomInfo", page |-> "join", settings |-> NoSettings]
       ELSE /\ joinError' = "invalid"
            /\ UNCHANGED <<isJoining, joinCall>>
    /\ lastAct' = Act("joinRoom", nJoins + 1)
    /\ UNCHANGED <<storeVars, isLeaving, teardown, recordingTime, sideVars, route, currentRoom, showPreJoin, mediaVars,
                   participants, sigVars, recVars, swapVars, serial>>

\* getRoomInfo resolved: the pre-join screen is shown.
RoomInfoResolve ==
    /\ joinCall.pc = "roomInfo"
    /\ showPreJoin' = TRUE
    /\ isJoining' = FALSE
    /\ joinCall' = IdleJoin
    /\ lastAct' = Act("roomInfo", nJoins)
    /\ UNCHANGED <<storeVars, isLeaving, teardown, recordingTime, sideVars, route, currentRoom, joinError, nJoins, mediaVars,
                   participants, sigVars, recVars, swapVars, serial>>

\* getRoomInfo rejected.
RoomInfoReject ==
    /\ joinCall.pc = "roomInfo"
    /\ joinError' = "failed"
    /\ isJoining' = FALSE
    /\ joinCall' = IdleJoin
    /\ lastAct' = Act("roomInfoFailed", nJoins)
    /\ UNCHANGED <<storeVars, isLeaving, teardown, recordingTime, sideVars, route, currentRoom, showPreJoin, nJoins,
                   mediaVars, participants, sigVars, recVars, swapVars, serial>>

\* JoinRoomPage.handleJoinWithSettings up to joinRoom.
handleJoinWithSettings(settings) ==
    /\ route = "join"
    /\ showPreJoin
    /\ joinCall.pc \in {"idle", "failed"}
    /\ nJoins < MaxJoins
    /\ nJoins' = nJoins + 1
    /\ isJoining' = TRUE
    /\ joinError' = ""
    /\ joinCall' = [pc |-> "joining", page |-> "join", settings |-> settings]
    /\ currentRoom' = RoomAtRequest(currentRoom, settings)
    /\ lastAct' = Act("joinWithSettings", nJoins + 1)
    /\ UNCHANGED <<storeVars, isLeaving, teardown, recordingTime, sideVars, route, showPreJoin, mediaVars,
                   participants, sigVars, recVars, swapVars, serial>>

\* PreJoinPage.handleJoin up to joinRoom; the Join button is disabled while
\* isJoining. The call keeps the videoEnabled and audioEnabled of its render.
handleJoin ==
    /\ route = "prejoin"
    /\ ~isJoining
    /\ nJoins < MaxJoins
    /\ nJoins' = nJoins + 1
    /\ isJoining' = TRUE
    /\ joinCall' = [pc |-> "joining", page |-> "prejoin",
                    settings |-> [audioEnabled |-> audioEnabled, videoEnabled |-> videoEnabled]]
    /\ currentRoom' = RoomAtRequest(currentRoom, joinCall'.settings)
    /\ lastAct' = Act("join", nJoins + 1)
    /\ UNCHANGED <<storeVars, isLeaving, teardown, recordingTime, sideVars, route, joinError, showPreJoin, mediaVars,
                   participants, sigVars, recVars, swapVars, serial>>

\* Both join handlers write isHost: false.
JoinedIsHost(pending) == FALSE

\* The mediaSettings written: JoinRoomPage passes its settings on; PreJoinPage
\* writes videoEnabled && the stream has a video track, and the same for audio.
JoinedSettings(call, stream) ==
    IF call.page = "prejoin"
    THEN [audioEnabled |-> call.settings.audioEnabled /\ stream # 0,
          videoEnabled |-> call.settings.videoEnabled /\ stream # 0]
    ELSE call.settings

\* The unmount of PreJoinPage: the media effect's cleanup sets cancelled for its
\* last run, and the unmount cleanup stops the tracks of streamRef.current.
UnmountRuns(runs, n) == [k \in DOMAIN runs |-> IF k = n THEN [runs[k] EXCEPT !.cancelled = TRUE] ELSE runs[k]]

UnmountLive(live, stream) == live \ {stream}

PreviewMounted == route = "prejoin"

\* joinRoom resolved: currentRoom is written, PreJoinPage removes pendingRoom,
\* and the page navigates to the recording page, which unmounts PreJoinPage.
JoinResolve ==
    /\ joinCall.pc = "joining"
    /\ currentRoom' = StoredRoom(JoinedIsHost(pendingRoom), JoinedSettings(joinCall, pjStream))
    /\ route' = "recording"
    /\ joinCall' = [joinCall EXCEPT !.pc = "joined"]
    /\ pendingRoom' = IF joinCall.page = "prejoin" THEN NoPending ELSE pendingRoom
    /\ IF PreviewMounted
       THEN /\ pjRuns' = UnmountRuns(pjRuns, nAcquires)
            /\ pjLive' = UnmountLive(pjLive, pjStream)
       ELSE UNCHANGED <<pjRuns, pjLive>>
    /\ lastAct' = Act("joined", nJoins)
    /\ UNCHANGED <<storeVars, isLeaving, teardown, recordingTime, frameTime, deviceVars, connVars, createCall,
                   nAcquires, pjStream, pjTrack, audioEnabled, videoEnabled, isJoining, joinError,
                   showPreJoin, nJoins, mediaVars, participants, sigVars, recVars, swapVars, serial>>

\* PreJoinPage.handleCancel: the tracks are stopped, pendingRoom removed, and
\* the page goes home, which unmounts it.
handleCancel ==
    /\ PreviewMounted
    /\ pjLive' = UnmountLive(pjLive, pjStream)
    /\ pjRuns' = UnmountRuns(pjRuns, nAcquires)
    /\ pendingRoom' = NoPending
    /\ route' = "home"
    /\ lastAct' = Act("cancel", 0)
    /\ UNCHANGED <<storeVars, isLeaving, teardown, recordingTime, frameTime, deviceVars, connVars, createCall,
                   nAcquires, pjStream, pjTrack, audioEnabled, videoEnabled, currentRoom, isJoining,
                   joinError, showPreJoin, joinCall, nJoins, mediaVars, participants, sigVars,
                   recVars, swapVars, serial>>

\* ------------------------------------------------------- CreateRoomPage
\* handleCreateRoom up to createRoom; valid is the outcome of the name and
\* token checks. The button is disabled while isCreating.
handleCreateRoom(valid) ==
    /\ route = "create"
    /\ createCall # "creating"
    /\ IF valid
       THEN /\ createCall' = "creating"
            /\ joinError' = ""
       ELSE /\ joinError' = "invalid"
            /\ UNCHANGED createCall
    /\ lastAct' = Act("createRoom", IF valid THEN 1 ELSE 0)
    /\ UNCHANGED <<storeVars, isLeaving, teardown, recordingTime, frameTime, deviceVars, connVars, pendingRoom,
                   previewVars, route, currentRoom, isJoining, showPreJoin, joinCall, nJoins,
                   mediaVars, participants, sigVars, recVars, swapVars, serial>>

\* createRoom resolved: pendingRoom is written with isHost: true and the page
\* navigates to the pre-join page.
CreateResolve ==
    /\ createCall = "creating"
    /\ createCall' = "created"
    /\ pendingRoom' = [stored |-> TRUE, isHost |-> TRUE]
    /\ route' = "prejoin"
    /\ lastAct' = Act("created", 0)
    /\ UNCHANGED <<storeVars, isLeaving, teardown, recordingTime, frameTime, deviceVars, connVars, previewVars,
                   currentRoom, isJoining, joinError, showPreJoin, joinCall, nJoins, mediaVars,
                   participants, sigVars, recVars, swapVars, serial>>

\* createRoom rejected: the catch shows the error and clears isCreating.
CreateReject ==
    /\ createCall = "creating"
    /\ createCall' = "failed"
    /\ joinError' = "failed"
    /\ lastAct' = Act("createFailed", 0)
    /\ UNCHANGED <<storeVars, isLeaving, teardown, recordingTime, frameTime, deviceVars, connVars, pendingRoom,
                   previewVars, route, currentRoom, isJoining, showPreJoin, joinCall, nJoins,
                   mediaVars, participants, sigVars, recVars, swapVars, serial>>

\* ------------------------------------------------- PreJoinPage preview
\* The media effect, at mount and whenever the selected input changes: the
\* cleanup of the run before sets its cancelled, then the body stops and drops
\* streamRef.current and calls getUserMedia.
previewEffect ==
    /\ PreviewMounted
    /\ pendingRoom.stored
    /\ nAcquires < MaxAcquires
    /\ nAcquires' = nAcquires + 1
    /\ pjRuns' = [k \in DOMAIN pjRuns |->
                     IF k = nAcquires + 1 THEN [pc |-> "acquiring", cancelled |-> FALSE]
                     ELSE IF k = nAcquires THEN [pjRuns[k] EXCEPT !.cancelled = TRUE]
                     ELSE pjRuns[k]]
    /\ pjLive' = pjLive \ {pjStream}
    /\ pjStream' = 0
    /\ lastAct' = Act("previewEffect", nAcquires + 1)
    /\ UNCHANGED <<storeVars, isLeaving, teardown, recordingTime, frameTime, deviceVars, connVars, pendingRoom,
                   createCall, pjTrack, audioEnabled, videoEnabled, joinVars, mediaVars,
                   participants, sigVars, recVars, swapVars, serial>>

\* A run that keeps the stream of a cancelled acquisition.
ArrivalNeverDiscarded(cancelled) == FALSE

\* if (cancelled) { stop the tracks; return }.
ArrivalDiscarded(cancelled) == cancelled

\* getUserMedia of run k resolved: a cancelled run stops the stream, another
\* stores it in streamRef and clears the error. The tracks of a new stream are
\* enabled.
PreviewResolve(k) ==
    /\ pjRuns[k].pc = "acquiring"
    /\ IF ArrivalDiscarded(pjRuns[k].cancelled)
       THEN /\ pjRuns' = [pjRuns EXCEPT ![k].pc = "discarded"]
            /\ lastAct' = Act("previewDiscarded", k)
            /\ UNCHANGED <<pjStream, pjLive, pjTrack, joinError>>
       ELSE /\ pjRuns' = [pjRuns EXCEPT ![k].pc = "stored"]
            /\ pjStream' = k
            /\ pjLive' = pjLive \cup {k}
            /\ pjTrack' = [audio |-> TRUE, video |-> TRUE]
            /\ joinError' = ""
            /\ lastAct' = Act("previewStored", k)
    /\ UNCHANGED <<storeVars, isLeaving, teardown, recordingTime, frameTime, deviceVars, connVars, pendingRoom,
                   createCall, nAcquires, audioEnabled, videoEnabled, route, currentRoom, isJoining,
                   showPreJoin, joinCall, nJoins, mediaVars, participants, sigVars, recVars,
                   swapVars, serial>>

\* getUserMedia of run k rejected: a run that is not cancelled shows the error.
PreviewReject(k) ==
    /\ pjRuns[k].pc = "acquiring"
    /\ pjRuns' = [pjRuns EXCEPT ![k].pc = "failed"]
    /\ joinError' = IF pjRuns[k].cancelled THEN joinError ELSE "media"
    /\ lastAct' = Act("previewFailed", k)
    /\ UNCHANGED <<storeVars, isLeaving, teardown, recordingTime, frameTime, deviceVars, connVars, pendingRoom,
                   createCall, nAcquires, pjStream, pjLive, pjTrack, audioEnabled, videoEnabled,
                   route, currentRoom, isJoining, showPreJoin, joinCall, nJoins, mediaVars,
                   participants, sigVars, recVars, swapVars, serial>>

\* toggleAudio: the audio track of streamRef.current, if any, gets
\* enabled = !audioEnabled, and audioEnabled flips.
toggleAudio ==
    /\ PreviewMounted
    /\ pjTrack' = IF pjStream # 0 THEN [pjTrack EXCEPT !.audio = ~audioEnabled] ELSE pjTrack
    /\ audioEnabled' = ~audioEnabled
    /\ lastAct' = Act("toggleAudio", 0)
    /\ UNCHANGED <<storeVars, isLeaving, teardown, recordingTime, frameTime, deviceVars, connVars, pendingRoom,
                   createCall, pjRuns, nAcquires, pjStream, pjLive, videoEnabled, joinVars,
                   mediaVars, participants, sigVars, recVars, swapVars, serial>>

\* toggleVideo: the same for the video track and videoEnabled.
toggleVideo ==
    /\ PreviewMounted
    /\ pjTrack' = IF pjStream # 0 THEN [pjTrack EXCEPT !.video = ~videoEnabled] ELSE pjTrack
    /\ videoEnabled' = ~videoEnabled
    /\ lastAct' = Act("toggleVideo", 0)
    /\ UNCHANGED <<storeVars, isLeaving, teardown, recordingTime, frameTime, deviceVars, connVars, pendingRoom,
                   createCall, pjRuns, nAcquires, pjStream, pjLive, audioEnabled, joinVars,
                   mediaVars, participants, sigVars, recVars, swapVars, serial>>

\* joinRoom rejected: the catch shows the error and clears the flag;
\* JoinRoomPage also goes back to its form.
JoinReject ==
    /\ joinCall.pc = "joining"
    /\ joinError' = "failed"
    /\ isJoining' = FALSE
    /\ showPreJoin' = IF route = "join" THEN FALSE ELSE showPreJoin
    /\ joinCall' = [joinCall EXCEPT !.pc = "failed"]
    /\ lastAct' = Act("joinFailed", nJoins)
    /\ UNCHANGED <<storeVars, isLeaving, teardown, recordingTime, sideVars, route, currentRoom, nJoins, mediaVars,
                   participants, sigVars, recVars, swapVars, serial>>

\* The recording page's first effect: with no room in the store it reads
\* currentRoom and calls setRoom, or goes home when there is none.
MountRecordingPage ==
    /\ route = "recording"
    /\ ~inRoom
    /\ ~isLeaving
    /\ IF currentRoom.stored
       THEN /\ inRoom' = TRUE
            /\ isHost' = currentRoom.isHost
            /\ mediaSettings' = currentRoom.mediaSettings
            /\ participants' = <<SelfParticipant(currentRoom.isHost,
                                                 currentRoom.mediaSettings.audioEnabled,
                                                 currentRoom.mediaSettings.videoEnabled)>>
            /\ UNCHANGED route
       ELSE /\ route' = "home"
            /\ UNCHANGED <<storeVars, participants>>
    /\ serial' = [serial EXCEPT !.participants = participants']
    /\ lastAct' = Act("setRoom", 0)
    /\ UNCHANGED <<isLeaving, teardown, recordingTime, sideVars, currentRoom, isJoining, joinError, showPreJoin, joinCall,
                   nJoins, mediaVars, sigVars, recVars, swapVars>>

\* -------------------------------------------------------- useMediaDevices
\* Everything but the device registry and the history of the last operation.
registryFrame ==
    <<storeVars, isLeaving, joinVars, teardown, recordingTime, frameTime, connVars, entryVars,
      mediaVars, participants, sigVars, recVars, swapVars, serial>>

\* enumerateDevices up to its first await: setLoading(true), setError(null),
\* then the permission request.
StartEnumeration ==
    /\ nEnums < MaxEnums
    /\ nEnums' = nEnums + 1
    /\ enumRuns' = [enumRuns EXCEPT ![nEnums + 1] = [pc |-> "permission", read |-> NoDevices]]
    /\ loading' = TRUE
    /\ devicesError' = FALSE

\* The mount effect, or refresh(): enumerateDevices is called.
enumerateDevices ==
    /\ StartEnumeration
    /\ lastAct' = Act("enumerate", nEnums + 1)
    /\ UNCHANGED <<platformDevices, devices, registryFrame>>

\* The platform's device set changed and the 'devicechange' listener, registered
\* by the mount effect, calls enumerateDevices.
handleDeviceChange(set) ==
    /\ nEnums > 0
    /\ set # platformDevices
    /\ platformDevices' = set
    /\ StartEnumeration
    /\ lastAct' = Act("devicechange", nEnums + 1)
    /\ UNCHANGED <<devices, registryFrame>>

\* The permission request settled, resolved or rejected (the inner catch only
\* warns): navigator.mediaDevices.enumerateDevices() is called.
PermissionSettled(k) ==
    /\ enumRuns[k].pc = "permission"
    /\ enumRuns' = [enumRuns EXCEPT ![k] = [@ EXCEPT !.pc = "enumerating"]]
    /\ lastAct' = Act("permissionSettled", k)
    /\ UNCHANGED <<platformDevices, nEnums, devices, loading, devicesError, registryFrame>>

\* The platform takes the list the pending call will resolve with, at some
\* moment between the call and its resolution.
PlatformReads(k) ==
    /\ enumRuns[k].pc = "enumerating"
    /\ enumRuns' = [enumRuns EXCEPT ![k] = [pc |-> "read", read |-> platformDevices]]
    /\ lastAct' = Act("platformReads", k)
    /\ UNCHANGED <<platformDevices, nEnums, devices, loading, devicesError, registryFrame>>

\* enumerateDevices() resolved: setDevices(deviceList), whichever call it was,
\* then the finally.
EnumerateResolve(k) ==
    /\ enumRuns[k].pc = "read"
    /\ devices' = enumRuns[k].read
    /\ loading' = FALSE
    /\ enumRuns' = [enumRuns EXCEPT ![k] = [@ EXCEPT !.pc = "done"]]
    /\ lastAct' = Act("enumerated", k)
    /\ UNCHANGED <<platformDevices, nEnums, devicesError, registryFrame>>

\* enumerateDevices() rejected: setError(err), then the finally.
EnumerateReject(k) ==
    /\ enumRuns[k].pc \in {"enumerating", "read"}
    /\ devicesError' = TRUE
    /\ loading' = FALSE
    /\ enumRuns' = [enumRuns EXCEPT ![k] = [@ EXCEPT !.pc = "failed"]]
    /\ lastAct' = Act("enumerateFailed", k)
    /\ UNCHANGED <<platformDevices, nEnums, devices, registryFrame>>

\* ------------------------------------------------------------------- Next
RegistryNext ==
    \/ enumerateDevices
    \/ \E set \in DeviceSets : handleDeviceChange(set)
    \/ \E k \in 1..MaxEnums : PermissionSettled(k)
    \/ \E k \in 1..MaxEnums : PlatformReads(k)
    \/ \E k \in 1..MaxEnums : EnumerateResolve(k)
    \/ \E k \in 1..MaxEnums : EnumerateReject(k)

ConnectNext ==
    \/ initializeCloudflare
    \/ CloudflareConnectResolve
    \/ CloudflareReject
    \/ ConnectSignaling

MediaNext ==
    \/ InitializeMediaOk
    \/ InitializeMediaFail

ToggleNext ==
    \/ handleToggleMute
    \/ handleToggleVideo

SwapNext ==
    \/ \E kind \in {"audio", "video"} : handleInputChange(kind)
    \/ \E k \in 1..MaxSwaps : InputChangeResolve(k)
    \/ \E k \in 1..MaxSwaps : InputChangeReject(k)

RecordingNext ==
    \/ handleToggleRecording
    \/ \E k \in 1..MaxRecCalls : StopResolve(k)
    \/ \E k \in 1..MaxRecCalls, what \in {"close", "finalize"} : StopReject(k, what)
    \/ \E k \in 1..MaxRecCalls : StartSessionResolve(k)
    \/ \E k \in 1..MaxRecCalls : StartSessionReject(k)
    \/ \E k \in 1..MaxRecCalls : OpenResolve(k)
    \/ \E k \in 1..MaxRecCalls : OpenReject(k)

JoinNext ==
    \/ \E valid \in BOOLEAN : handleJoinRoom(valid)
    \/ RoomInfoResolve
    \/ RoomInfoReject
    \/ \E settings \in [audioEnabled : BOOLEAN, videoEnabled : BOOLEAN] : handleJoinWithSettings(settings)
    \/ handleJoin
    \/ JoinResolve
    \/ JoinReject
    \/ MountRecordingPage

CreateNext ==
    \/ \E valid \in BOOLEAN : handleCreateRoom(valid)
    \/ CreateResolve
    \/ CreateReject

PreviewNext ==
    \/ previewEffect
    \/ \E k \in 1..MaxAcquires : PreviewResolve(k)
    \/ \E k \in 1..MaxAcquires : PreviewReject(k)
    \/ toggleAudio
    \/ toggleVideo
    \/ handleCancel

\* The whole application.
Next ==
    \/ MediaNext
    \/ ConnectNext
    \/ \E m \in Messages : Deliver(m)
    \/ \E m \in MalformedMsgs : DeliverMalformed(m)
    \/ \E k \in 1..MaxMsgs : ResumeSnapshot(k)
    \/ \E sid \in SessionIds, kind \in {"audio", "video"}, enabled \in BOOLEAN :
          onTrackAdded(sid, kind, enabled)
    \/ \E id \in RemoteIds : AttachStream(id)
    \/ ToggleNext
    \/ SwapNext
    \/ RecordingNext
    \/ recordKeyIgnored
    \/ Tick
    \/ \E gap \in FrameGaps, loud \in BOOLEAN : checkVoiceActivity(gap, loud)
    \/ JoinNext
    \/ CreateNext
    \/ PreviewNext
    \/ RegistryNext
    \/ handleLeave
    \/ handleLeaveAgain

Spec == Init /\ [][Next]_vars

(***************************************************************************)
(* The page's operations fall into three groups that write disjoint state, *)
(* apart from the participant list they all read: the signaling fold,      *)
(* the recording toggle, and the local tracks.  Each group is checked in a *)
(* specification of its own, which keeps every operation that writes what  *)
(* the group reads and drops the operations of the other groups.           *)
(***************************************************************************)

\* The signaling fold: every message, its suspended continuations, and leaving.
\* No action of this group reads isHost or mediaSettings. Of the two local
\* toggles, which differ only in the flag of self they flip, the mute toggle
\* stands for both.
SignalingInit ==
    /\ Init
    /\ isHost
    /\ mediaSettings = [audioEnabled |-> TRUE, videoEnabled |-> TRUE]

SignalingNext ==
    \/ MediaNext
    \/ ConnectNext
    \/ \E m \in Messages : Deliver(m)
    \/ \E k \in 1..MaxMsgs : ResumeSnapshot(k)
    \/ handleToggleMute
    \/ handleLeave

SignalingSpec == SignalingInit /\ [][SignalingNext]_vars

\* The messages that register a remote participant with a session.
SubscribeMessages ==
    {m \in AnnounceMsgs : m.participantId \in RemoteIds /\ m.participantName = "Ann"}
    \cup SnapshotMsgs

\* The message handler with the tracks its subscriptions deliver.
SubscribeNext ==
    \/ MediaNext
    \/ ConnectNext
    \/ \E m \in SubscribeMessages : Deliver(m)
    \/ \E k \in 1..MaxMsgs : ResumeSnapshot(k)
    \/ \E sid \in SessionIds, kind \in {"audio", "video"}, enabled \in BOOLEAN :
          onTrackAdded(sid, kind, enabled)
    \/ handleLeave

SubscribeSpec == SignalingInit /\ [][SubscribeNext]_vars

\* The messages the recording toggle can tell apart: who is in the room.
RecordingMessages ==
    {m \in AnnounceMsgs : m.participantId \in RemoteIds /\ m.participantName = "Ann" /\ m.sessionId = "s1"}
    \cup {m \in LeftMsgs : m.type = "participant-left" /\ m.participantId \in RemoteIds \cup {SelfId}}

\* The recording toggle, with the messages and sources that change who it records.
RecordingSpecNext ==
    \/ MediaNext
    \/ ConnectNext
    \/ \E m \in RecordingMessages : Deliver(m)
    \/ \E id \in RemoteIds : AttachStream(id)
    \/ RecordingNext
    \/ handleLeave

\* Only the host has the record control, and the toggle reads whether a local
\* stream exists, not which tracks it carries.
RecordingInit ==
    /\ Init
    /\ isHost
    /\ mediaSettings = [audioEnabled |-> TRUE, videoEnabled |-> TRUE]

RecordingSpec == RecordingInit /\ [][RecordingSpecNext]_vars

\* The well-formed messages that follow or precede a malformed one.
WellFormedAround ==
    {m \in AnnounceMsgs : m.participantId \in RemoteIds /\ m.sessionId = "s2"}
    \cup {m \in TrackStateMsgs : m.participantId \in RemoteIds}
    \cup {m \in LeftMsgs : m.type = "participant-left" /\ m.participantId \in RemoteIds}

\* The message handler fed malformed payloads among well-formed ones.
MalformedNext ==
    \/ MediaNext
    \/ ConnectNext
    \/ \E m \in MalformedMsgs : DeliverMalformed(m)
    \/ \E m \in WellFormedAround : Deliver(m)
    \/ handleLeave

MalformedSpec == SignalingInit /\ [][MalformedNext]_vars

\* One message of every kind the switch names, about one remote participant, and
\* one of a kind it does not name.
FrameMessages ==
    {m \in AnnounceMsgs : m.participantId = "p1" /\ m.participantName = "Ann" /\ m.sessionId = "s1"}
    \cup {m \in LeftMsgs : m.type = "participant-left" /\ m.participantId = "p1"}
    \cup {m \in TrackStateMsgs : m.participantId = "p1" /\ m.kind = "audio"}
    \cup {m \in SnapshotMsgs : Len(m.participants) = 1 /\ m.participants[1].participantId = "p1"
                                 /\ m.participants[1].sessionId = "s1"}
    \cup UnknownMsgs

\* The message handler beside a recording and its timer. The handler reads of a
\* recording only isRecording and the set of recorded participants, which the
\* calls that resolve produce in full.
FrameNext ==
    \/ MediaNext
    \/ ConnectNext
    \/ \E m \in FrameMessages : Deliver(m)
    \/ \E k \in 1..MaxMsgs : ResumeSnapshot(k)
    \/ handleToggleRecording
    \/ \E k \in 1..MaxRecCalls : StartSessionResolve(k)
    \/ \E k \in 1..MaxRecCalls : OpenResolve(k)
    \/ \E k \in 1..MaxRecCalls : StopResolve(k)
    \/ Tick
    \/ handleLeave

FrameSpec == RecordingInit /\ [][FrameNext]_vars

\* The record control and the recording timer, for a host and for a guest.
TimerInit ==
    /\ Init
    /\ mediaSettings = [audioEnabled |-> TRUE, videoEnabled |-> TRUE]

TimerNext ==
    \/ MediaNext
    \/ RecordingNext
    \/ recordKeyIgnored
    \/ Tick
    \/ handleLeave

TimerSpec == TimerInit /\ [][TimerNext]_vars

\* The messages that change what the local toggles and swaps read: self's flags.
TrackMessages == {m \in TrackStateMsgs : m.participantId = SelfId}

\* The local tracks: toggles and device hot-swaps.
TracksNext ==
    \/ MediaNext
    \/ ConnectNext
    \/ \E m \in TrackMessages : Deliver(m)
    \/ ToggleNext
    \/ SwapNext
    \/ handleLeave

\* No action of this group reads isHost.
TracksInit ==
    /\ Init
    /\ ~isHost

TracksSpec == TracksInit /\ [][TracksNext]_vars

\* The voice monitor with what starts and stops it: the initial acquisition, the
\* mute toggle, the device change and leaving. The socket stays unconnected.
VoiceNext ==
    \/ MediaNext
    \/ handleToggleMute
    \/ SwapNext
    \/ \E gap \in FrameGaps, loud \in BOOLEAN : checkVoiceActivity(gap, loud)
    \/ handleLeave

VoiceSpec == TracksInit /\ [][VoiceNext]_vars

\* Leaving: the host's page with whatever may be in flight when the user leaves,
\* a recording toggle, the initial acquisition or a device change.
LeaveNext ==
    \/ MediaNext
    \/ ConnectNext
    \/ RecordingNext
    \/ SwapNext
    \/ handleLeave
    \/ handleLeaveAgain

LeaveSpec == RecordingInit /\ [][LeaveNext]_vars

\* The join pages before the room exists: nothing is stored, the room store is
\* empty, and the user is on JoinRoomPage or on PreJoinPage.
JoinInit ==
    /\ inRoom = FALSE
    /\ isLeaving = FALSE
    /\ isHost = FALSE
    /\ mediaSettings = NoSettings
    /\ participants = << >>
    /\ sessionToParticipant = EmptyTable
    /\ media = "pending"
    /\ audioTrack = "none"
    /\ videoTrack = "none"
    /\ ws = "none"
    /\ handlers = [k \in 1..MaxMsgs |-> IdleHandler]
    /\ nDelivered = 0
    /\ diag = "none"
    /\ isRecording = FALSE
    /\ participantsRecording = {}
    /\ openRecorders = {}
    /\ error = ""
    /\ recs = [k \in 1..MaxRecCalls |-> IdleRec]
    /\ nRecCalls = 0
    /\ swaps = [k \in 1..MaxSwaps |-> IdleSwap]
    /\ nSwaps = 0
    /\ serial = [participants |-> participants, table |-> sessionToParticipant]
    /\ lastSnap = NoSnap
    /\ lastRecCmd = "none"
    /\ lastAct = Act("init", 0)
    /\ audioDev = 0
    /\ videoDev = 0
    /\ released = {}
    /\ monitor = MonitorOff
    /\ lastSent = [audio |-> "none", video |-> "none"]
    /\ route \in {"join", "create"}
    /\ currentRoom = NoRoom
    /\ isJoining = FALSE
    /\ joinError = ""
    /\ showPreJoin = FALSE
    /\ joinCall = IdleJoin
    /\ nJoins = 0
    /\ teardown = << >>
    /\ recordingTime = 0
    /\ frameTime = 0
    /\ cfInit = IdleInit
    /\ sockets = 0
    /\ announces = 0
    /\ pendingRoom = NoPending
    /\ createCall = "idle"
    /\ pjRuns = [k \in 1..MaxAcquires |-> IdleRun]
    /\ nAcquires = 0
    /\ pjStream = 0
    /\ pjLive = {}
    /\ pjTrack = [audio |-> FALSE, video |-> FALSE]
    /\ audioEnabled = TRUE
    /\ videoEnabled = TRUE
    /\ platformDevices = "A"
    /\ enumRuns = [k \in 1..MaxEnums |-> IdleEnum]
    /\ nEnums = 0
    /\ devices = NoDevices
    /\ loading = TRUE
    /\ devicesError = FALSE

\* Joining, entering the room and leaving it.
JoinSpecNext ==
    \/ CreateNext
    \/ PreviewNext
    \/ JoinNext
    \/ MediaNext
    \/ ToggleNext
    \/ handleLeave
    \/ handleLeaveAgain

JoinSpec == JoinInit /\ [][JoinSpecNext]_vars

\* The device registry on its own: its state is read and written by no other
\* handler.
RegistrySpec == Init /\ [][RegistryNext]_vars


\* ================================================================== claims
RecSlots == 1..MaxRecCalls

\* The participants of call k's snapshot whose recorder open succeeded: those
\* with a source before the one the loop stands at.
Opened(k) == SourcesUpTo(recs[k], recs[k].i - 1)

\* C1: a start in which the open of some, but not all, participants with a media
\* source failed still makes the session active, records exactly the
\* participants whose open succeeded, has attempted the open of every
\* participant with a source, and has reported the failure.
C1_StartToleratesPartialFailure ==
    \A k \in RecSlots :
        (lastAct = Act("openFailed", k) /\ Opened(k) # {})
        => /\ isRecording
           /\ Opened(k) \subseteq participantsRecording
           /\ NextSource(recs[k], recs[k].i + 1) > Len(recs[k].snapshot)
           /\ error = "startFailed"

\* C2: after the stop path has run, with every close resolved or with a close or
\* the finalisation rejected, the session is not active.
C2_StopAlwaysInactive ==
    \A k \in RecSlots :
        lastAct \in {Act("stopped", k), Act("stopFailed-close", k), Act("stopFailed-finalize", k)}
        => ~isRecording

\* The recording command that took effect last: a start issued ("start"), a stop
\* that has run ("stop") or is still running ("stopping"), or the departure from
\* the room ("leave").
LastCommand ==
    IF ~inRoom THEN "leave"
    ELSE IF \E k \in RecSlots : recs[k].pc = "stopping" THEN "stopping"
    ELSE lastRecCmd

\* C3: the session is active only if a start was issued more recently than the
\* last stop and than the departure from the room; it is inactive at first,
\* once a stop has run, and after leaving.
C3_ActiveOnlyAfterStart ==
    isRecording => LastCommand \in {"start", "stopping"}


\* The number of participants with the reserved local id.
SelfCount(ps) == Cardinality({i \in DOMAIN ps : ps[i].id = SelfId})

\* The state the signaling fold works on.
RoomState == [participants |-> participants, table |-> sessionToParticipant]

\* C4: while in the room exactly one participant has the id "self", whatever
\* messages and local commands have been applied; and a participant-left or leave
\* message that names "self" fails with InvalidOperation and leaves the
\* participant list as it was.
C4_ExactlyOneSelf ==
    /\ SelfCount(participants) = 1
    /\ [][/\ inRoom' => SelfCount(participants') = 1
          /\ (lastAct'.op = "left" /\ lastAct'.id = SelfId /\ lastAct' # lastAct)
             => (diag' = "InvalidOperation" /\ participants' = participants)]_vars

\* C4 witness: in the room, with a remote participant present, a removal aimed at
\* "self" has just been refused.
C4_Witness ==
    /\ inRoom
    /\ lastAct.op = "left"
    /\ lastAct.id = SelfId
    /\ lastAct.slot = 2
    /\ diag = "InvalidOperation"
    /\ Len(participants) = 2

\* C5: a session-announce applied to the state its first application produced
\* changes nothing: participant list, participant fields and session table are
\* those of the single application.
C5_AnnounceIdempotent ==
    \A m \in AnnounceMsgs :
        LET once == Fold(RoomState, m) IN Fold(once, m) = once

\* C5 witness: a session-announce for a participant already in the room has just
\* been applied, the room holding that participant under its first name.
C5_Witness ==
    /\ lastAct.op = "cloudflare-session"
    /\ lastAct.known
    /\ lastAct.id \in RemoteIds
    /\ lastAct.slot = 2
    /\ Len(participants) = 2
    /\ \E sid \in SessionIds : sessionToParticipant[sid] = lastAct.id

NoHandlerSuspended == \A k \in DOMAIN handlers : handlers[k].pc = "idle"

\* C6: once every handler has run to its end, the participant list, the
\* participant fields and the session table are those of the fold of the
\* delivered messages, however long each subscription took.
C6_FoldDeterministic ==
    NoHandlerSuspended => RoomState = serial

\* C7: a track-state message naming a participant that is not in the room
\* creates no participant, changes no participant, and raises no error.
C7_TrackStateUnknownNoOp ==
    [][(lastAct'.op = "track-state" /\ ~lastAct'.known /\ lastAct' # lastAct)
       => /\ participants' = participants
          /\ sessionToParticipant' = sessionToParticipant
          /\ lastAct'.id \notin IdSet(participants')
          /\ diag' = "none"]_vars

\* C7 witness: with a remote participant in the room, a track-state message for
\* another, absent, remote participant has just been applied.
C7_Witness ==
    /\ lastAct.op = "track-state"
    /\ ~lastAct.known
    /\ lastAct.id \in RemoteIds
    /\ Len(participants) = 2

SwapSlots == 1..MaxSwaps

\* C9: a device hot-swap that replaces the local audio track while self is muted
\* yields a new track that is not enabled, one that replaces the local video
\* track while self's video is off yields a new track that is not enabled, and
\* the swap changes neither flag of self.
C9_SwapPreservesEnabled ==
    [][\A k \in SwapSlots :
          (swaps[k].pc = "acquiring" /\ swaps'[k].pc = "swapped" /\ HasSelf)
          => /\ participants' = participants
             /\ (swaps[k].kind = "audio" /\ Self.isMuted) => audioTrack' = "off"
             /\ (swaps[k].kind = "video" /\ ~Self.isVideoOn) => videoTrack' = "off"]_vars

\* The left message of the step just taken named a participant that was being
\* recorded in an active session.
LeftOfRecorded ==
    /\ lastAct'.op = "left"
    /\ lastAct' # lastAct
    /\ isRecording
    /\ lastAct'.id \in participantsRecording

\* What C10 says of such a step: the recorder of the participant is closed and
\* the participant leaves the set and the room; the session stays active and
\* the other recorders stay open.
LeftClosesRecorder ==
    /\ openRecorders' = openRecorders \ {lastAct'.id}
    /\ participantsRecording' = participantsRecording \ {lastAct'.id}
    /\ lastAct'.id \notin IdSet(participants')
    /\ isRecording' = isRecording

\* C10 as stated: for every participant id in activeParticipantRecordings.
C10_LeftClosesRecorder ==
    [][LeftOfRecorded => LeftClosesRecorder]_vars

\* C10 amended: for every participant id other than the reserved "self".
C10_RemoteLeftClosesRecorder ==
    [][(LeftOfRecorded /\ lastAct'.id # SelfId) => LeftClosesRecorder]_vars

\* C10 witness: in an active session that recorded self and a remote participant,
\* the remote participant's leave message has just been applied.
C10_Witness ==
    /\ lastAct.op = "left"
    /\ lastAct.id \in RemoteIds
    /\ lastAct.known
    /\ isRecording
    /\ participantsRecording = {SelfId}
    /\ openRecorders = {SelfId}
    /\ \E k \in RecSlots : recs[k].pc = "started" /\ lastAct.id \in Opened(k)

\* C11: once the stop path has ended, a close was requested for every entry of
\* activeParticipantRecordings, a failed close included, and the session's
\* finalisation (Recording.stopRecording) was requested.
C11_StopClosesBestEffort ==
    \A k \in RecSlots :
        lastAct \in {Act("stopped", k), Act("stopFailed-close", k), Act("stopFailed-finalize", k)}
        => /\ openRecorders = {}
           /\ recs[k].pc \in {"stopped", "stopFailed-finalize"}

\* The place of a step in the teardown (0 when it did not run).
Pos(steps, x) ==
    IF \E i \in DOMAIN steps : steps[i] = x THEN CHOOSE i \in DOMAIN steps : steps[i] = x ELSE 0

\* The user has just left while a recording was active and the channel open.
LeftWhileRecording ==
    /\ lastAct = Act("leave", 0)
    /\ Pos(teardown, "stopRecording") > 0
    /\ Pos(teardown, "closeChannel") > 0

\* C12: leaving while a recording is active stops the recorders, so that none
\* stays open, then cancels the pending device acquisitions, then closes the
\* signaling channel, and only then discards the room state.
C12_LeaveTeardownOrder ==
    LeftWhileRecording
    => /\ openRecorders = {}
       /\ media # "pending" /\ \A k \in 1..MaxSwaps : swaps[k].pc # "acquiring"
       /\ Pos(teardown, "stopRecording") < Pos(teardown, "closeChannel")
       /\ Pos(teardown, "closeChannel") < Pos(teardown, "leaveRoom")

\* Everything but the history of the operation that acted last.
PageState ==
    <<roomVars, mediaVars, participants, sigVars, recVars, swapVars, serial>>

\* C13: the step in which handleLeave runs clears the recording flag, stops the
\* voice monitor and discards the room state, whatever is still in flight; once
\* left the page never holds a room again; and a repeated leave changes nothing.
C13_LeaveFinal ==
    [][/\ (~isLeaving /\ isLeaving')
          => /\ ~isRecording'
             /\ ~monitor'.running
             /\ ~inRoom'
             /\ participants' = << >>
             /\ ~currentRoom'.stored
       /\ isLeaving => (isLeaving' /\ ~inRoom' /\ route' = "home")
       /\ lastAct'.op = "leaveAgain" => PageState' = PageState]_vars

\* C13 witness: the user left while a recording was active, with the media ready,
\* and then asked to leave again.
C13_Witness ==
    /\ lastAct.op = "leaveAgain"
    /\ Pos(teardown, "stopRecording") > 0
    /\ Pos(teardown, "stopTracks") > 0
    /\ ~isRecording
    /\ ~inRoom

\* C14: when joinRoom rejects, no currentRoom entry has been written, the page
\* has not moved to the recording page and holds no room, the error is shown
\* and the joining flag is cleared; and currentRoom is written only in the step
\* in which joinRoom succeeded.
C14_FailedJoinNotActive ==
    [][/\ (joinCall.pc = "joining" /\ joinCall'.pc = "failed")
          => /\ ~currentRoom'.stored
             /\ route' = route
             /\ ~inRoom'
             /\ joinError' = "failed"
             /\ ~isJoining'
       /\ (~currentRoom.stored /\ currentRoom'.stored) => joinCall'.pc = "joined"]_vars

\* C14 witness: on JoinRoomPage the join with settings has just been rejected
\* and the page is back on its form.
C14_Witness ==
    /\ lastAct.op = "joinFailed"
    /\ route = "join"
    /\ joinCall.settings.audioEnabled
    /\ ~showPreJoin
    /\ ~currentRoom.stored

\* C15: once the room is torn down, the result of a getUserMedia that was in
\* flight is discarded: no stream is stored as localStream and no track is
\* attached to the local stream.
C15_AcquisitionsCancelled ==
    [][isLeaving => /\ media' = "ready" => media = "ready"
                    /\ <<audioTrack', audioDev'>> = <<audioTrack, audioDev>>
                    /\ <<videoTrack', videoDev'>> = <<videoTrack, videoDev>>]_vars

\* Device change k has just replaced the stream's track of kind by its own.
SwappedIn(k, kind) ==
    /\ swaps[k].pc = "acquiring"
    /\ swaps'[k].pc = "swapped"
    /\ swaps[k].kind = kind
    /\ IF kind = "audio" THEN audioDev' = k /\ audioTrack' # "none"
                         ELSE videoDev' = k /\ videoTrack' # "none"

\* C16: short of leaving the room, a track of the local stream is stopped only
\* in the step in which a device change of its kind, its acquisition resolved,
\* puts the new track in its place; never while the acquisition is pending.
C16_OldReleasedAfterNew ==
    [][\A r \in released' \ released :
           \/ ~isLeaving /\ isLeaving'
           \/ \E k \in SwapSlots : SwappedIn(k, r.kind)]_vars

\* C16 witness: in the room, a device change has just replaced the initial audio
\* track, which is stopped, by its own.
C16_Witness ==
    /\ lastAct.op = "inputChanged"
    /\ ~isLeaving
    /\ audioDev = lastAct.slot
    /\ audioTrack = "on"
    /\ released = {[kind |-> "audio", dev |-> 0]}

\* C17: a device change whose acquisition fails leaves the local stream's tracks
\* (present, running, enabled flag), self's flags and the voice monitor as they
\* were.
C17_FailedSwapKeepsTrack ==
    [][\A k \in SwapSlots :
           (swaps[k].pc = "acquiring" /\ swaps'[k].pc = "rejected")
           => /\ <<audioTrack', audioDev'>> = <<audioTrack, audioDev>>
              /\ <<videoTrack', videoDev'>> = <<videoTrack, videoDev>>
              /\ released' = released
              /\ participants' = participants
              /\ monitor' = monitor]_vars

\* C17 witness: in the room, unmuted and with the monitor running, the
\* acquisition of an audio device change has just failed.
C17_Witness ==
    /\ lastAct.op = "inputChangeFailed"
    /\ swaps[lastAct.slot].kind = "audio"
    /\ ~isLeaving
    /\ audioTrack = "on"
    /\ monitor = MonitorOn(0)
    /\ released = {}

\* The local participant of a participant list.
SelfOf(ps) == ps[Find(ps, SelfId)]

\* C18: a mute toggle changes self's isMuted and sends one track-state command
\* for audio with the new enabled value, a video toggle does the same with
\* isVideoOn, so that the last command sent for the kind is self's new state.
C18_ToggleEmitsTrackState ==
    [][/\ (lastAct'.op = "toggleMute" /\ participants' # participants)
          => /\ SelfOf(participants').isMuted # SelfOf(participants).isMuted
             /\ lastAct'.emitted
             /\ lastSent'.audio = IF SelfOf(participants').isMuted THEN "off" ELSE "on"
       /\ (lastAct'.op = "toggleVideo" /\ participants' # participants)
          => /\ SelfOf(participants').isVideoOn # SelfOf(participants).isVideoOn
             /\ lastAct'.emitted
             /\ lastSent'.video = IF SelfOf(participants').isVideoOn THEN "on" ELSE "off"]_vars

\* The voice monitor has just reported a sample for self.
Sampled == lastAct'.op = "voiceSample" /\ lastAct' # lastAct

\* C19: once the local audio track is disabled or replaced the monitor reports
\* no further sample from the analyser of the old track: every sample comes
\* from the local stream's current audio track, enabled and running.
C19_MonitorStopsWithTrack ==
    [][Sampled => SampledLive]_vars

\* C20: self is speaking only while not muted.
C20_SpeakingOnlyUnmuted ==
    HasSelf => (Self.isSpeaking => ~Self.isMuted)

\* --------------------------------------------------------------------- C21
\* A step that delivers a message of a type the switch does not name.
UnknownDelivered == nDelivered' = nDelivered + 1 /\ lastAct'.op = "ping"

\* C21: a message of an unknown type changes nothing: the participant list, the
\* session table, the suspended handlers, the recorders, the recording state and
\* its timer stay as they were, and no error is reported.
C21_UnknownTypeIgnored ==
    [][UnknownDelivered =>
          /\ participants' = participants
          /\ sessionToParticipant' = sessionToParticipant
          /\ handlers' = handlers
          /\ participantsRecording' = participantsRecording
          /\ openRecorders' = openRecorders
          /\ isRecording' = isRecording
          /\ recordingTime' = recordingTime
          /\ ws' = ws
          /\ diag' = "none"]_vars

\* C21 witness: an unknown message arrived while a remote participant was in the
\* room and the recording was active.
C21_Witness ==
    /\ lastAct.op = "ping"
    /\ isRecording
    /\ "p1" \in IdSet(participants)

\* --------------------------------------------------------------------- C22
\* A step that delivers a malformed message.
MalformedDelivered == nDelivered' = nDelivered + 1 /\ lastAct'.op = "malformed"

\* C22: a malformed message is dropped as a whole: the participant list, the
\* session table and the suspended handlers are as before it, and the socket
\* stays open for the messages that follow.
C22_MalformedDropped ==
    [][MalformedDelivered =>
          /\ participants' = participants
          /\ sessionToParticipant' = sessionToParticipant
          /\ handlers' = handlers
          /\ ws' = "open"]_vars

\* --------------------------------------------------------------------- C23
\* C23: recordingTime changes only by one-second ticks of an active session: a
\* step that changes it adds exactly one, is taken while isRecording holds, and
\* is taken neither after a stop has run nor after the room was left.
C23_TicksOnlyWhileActive ==
    [][recordingTime' # recordingTime =>
          /\ recordingTime' = recordingTime + 1
          /\ isRecording
          /\ LastCommand \in {"start", "stopping"}]_vars

\* --------------------------------------------------------------------- C24
\* A step of the message handler: a message delivered, or a suspended handler
\* resumed.
MessageStep ==
    \/ nDelivered' = nDelivered + 1
    \/ lastAct' # lastAct /\ lastAct'.op = "resumeSnapshot"

\* C24: no signaling message changes the recording session: a step of the
\* message handler leaves isRecording and recordingTime as they were.
C24_MessagesKeepSession ==
    [][MessageStep => isRecording' = isRecording /\ recordingTime' = recordingTime]_vars

\* C24 witness: during an active recording whose timer has ticked, the
\* participant-left of a participant the recording had listed was handled.
C24_Witness ==
    /\ lastAct.op = "left"
    /\ lastAct.known
    /\ isRecording
    /\ recordingTime > 0

\* --------------------------------------------------------------------- C25
\* C25: a participant who is not the host never reaches handleToggleRecording:
\* no call of it was made and the recording is not active.
C25_HostOnlyRecords ==
    ~isHost => ~isRecording /\ nRecCalls = 0 /\ \A k \in RecSlots : recs[k].pc = "idle"

\* C25 witness: a guest with a live local stream pressed the 'r' key.
C25_Witness ==
    /\ ~isHost
    /\ inRoom
    /\ media = "ready"
    /\ lastAct.op = "recordKeyIgnored"

\* --------------------------------------------------------------------- C26
\* C26: the session table never dangles: while in the room, every session id it
\* holds maps to a participant of the room, so the entry of a participant is
\* gone once that participant's participant-left or leave was applied.
C26_TableNeverDangles ==
    inRoom => \A sid \in SessionIds :
                 sessionToParticipant[sid] # NoId => sessionToParticipant[sid] \in IdSet(participants)

\* --------------------------------------------------------------------- C27
\* A call of handleToggleRecording that took the start path and has not ended.
Starting(k) == recs[k].pc \in {"starting", "opening"}

\* C27: a start issued while a previous start is still opening recorders is
\* rejected: no two calls are in their start path together, so the session is
\* initialised once and a recorder is opened once per participant.
C27_StartTwiceRejected ==
    \A k1, k2 \in RecSlots : Starting(k1) /\ Starting(k2) => k1 = k2

\* --------------------------------------------------------------------- C28
\* The flags a participant of both lists has in the room and in the serial fold
\* of the delivered messages.
FlagsOf(ps, id) == [isMuted |-> ps[Find(ps, id)].isMuted, isVideoOn |-> ps[Find(ps, id)].isVideoOn]

\* C28: the messages about one participant take effect in delivery order: once
\* every handler has finished, a remote participant registered both in the room
\* and in the fold of the delivered messages has the isMuted and isVideoOn that
\* the track-state messages delivered after its registration gave it.
C28_TrackStateInOrder ==
    inRoom /\ NoHandlerSuspended =>
        \A id \in RemoteIds :
            id \in IdSet(participants) /\ id \in IdSet(serial.participants)
            => FlagsOf(participants, id) = FlagsOf(serial.participants, id)

\* --------------------------------------------------------------------- C29
\* The name a participant of the list has.
NameOf(ps, id) == ps[Find(ps, id)].name

\* C29: a participant is never created twice: after every step the list holds
\* each id at most once, and a participant who was in the list before the step
\* and is in it after has kept the name of its first registration.
C29_CreatedOnceFirstNameKept ==
    [][/\ \A i, j \in DOMAIN participants' : participants'[i].id = participants'[j].id => i = j
       /\ \A id \in IdSet(participants) \cap IdSet(participants') :
              NameOf(participants', id) = NameOf(participants, id)]_vars

\* C29 witness: p2 was listed by a snapshot (as "Ann") whose handler was
\* suspended before reaching it and announced (as "Bob") during the suspension;
\* the announce was applied first and the resumed snapshot kept its name.
C29_Witness ==
    /\ lastAct.op = "resumeSnapshot"
    /\ NoHandlerSuspended
    /\ "p2" \in IdSet(participants) /\ "p2" \in IdSet(serial.participants)
    /\ NameOf(participants, "p2") = "Bob"
    /\ NameOf(serial.participants, "p2") = "Ann"

\* --------------------------------------------------------------------- C30
\* C30: a device switch is atomic with respect to the toggles: when the swap
\* completes, the new audio track is enabled exactly if self is not muted at
\* that moment, and the new video track exactly if self's video is on at that
\* moment, whatever self's flags were when the switch was requested.
C30_SwapReadsStateAtCompletion ==
    [][\A k \in SwapSlots :
          (swaps[k].pc = "acquiring" /\ swaps'[k].pc = "swapped" /\ HasSelf)
          => /\ swaps[k].kind = "audio" => ((audioTrack' = "on") <=> ~Self.isMuted)
             /\ swaps[k].kind = "video" => ((videoTrack' = "on") <=> Self.isVideoOn)]_vars

\* --------------------------------------------------------------------- C31
\* An animation frame of the voice monitor was delivered in this step.
FrameDelivered == frameTime' # frameTime

\* C31: the monitor throttles its analysis to VOICE_UPDATE_INTERVAL: a speaking
\* update that follows an earlier update of the same monitor instance comes at
\* least VOICE_UPDATE_INTERVAL after it in frame timestamps, and a frame that
\* arrives sooner analyses nothing and updates nothing.
C31_AnalysisThrottled ==
    [][FrameDelivered /\ monitor.lastUpdateTime > 0 =>
          /\ Sampled => frameTime' - monitor.lastUpdateTime >= VOICE_UPDATE_INTERVAL
          /\ frameTime' - monitor.lastUpdateTime < VOICE_UPDATE_INTERVAL
                => participants' = participants /\ monitor' = monitor /\ ~Sampled]_vars

\* C31 witness: a monitor instance reported twice, with frames between the two
\* reports that came too soon to be analysed.
C31_Witness ==
    /\ lastAct.op = "voiceSample"
    /\ monitor.running
    /\ monitor.lastUpdateTime > 2 * VOICE_UPDATE_INTERVAL
    /\ monitor.lastUpdateTime < frameTime + 1
    /\ frameTime = 2 * VOICE_UPDATE_INTERVAL + 40

C33_PreviewStreamsReleased ==
    /\ pjLive \subseteq {pjStream}
    /\ ~PreviewMounted => pjLive = {}

\* C33 witness: the selection changed while the first acquisition was in flight;
\* the second run's stream is the preview, and the first run's result arrived
\* after it and was stopped.
C33_Witness ==
    /\ lastAct = Act("previewDiscarded", 1)
    /\ pjRuns[2].pc = "stored"
    /\ pjStream = 2
    /\ pjLive = {2}

\* --------------------------------------------------------------------- C38
\* C38: the host role fixed at room creation is preserved into the room: when
\* the join from the pre-join page succeeds for a user whose pendingRoom was
\* stored with isHost = true, the currentRoom written has isHost = true.
C38_HostRolePreserved ==
    [][(joinCall.pc = "joining" /\ joinCall'.pc = "joined" /\ joinCall.page = "prejoin"
        /\ pendingRoom.stored)
          => currentRoom'.isHost = pendingRoom.isHost]_vars

\* --------------------------------------------------------------------- C39
\* No acquisition of the preview is pending.
NoAcquisitionPending == \A k \in DOMAIN pjRuns : pjRuns[k].pc # "acquiring"

\* C39: in the pre-join preview the toggles and the tracks agree: with a preview
\* stream and no acquisition pending, the audio track is enabled exactly if
\* audioEnabled and the video track exactly if videoEnabled.
C39_PreviewTogglesMatchTracks ==
    (PreviewMounted /\ pjStream # 0 /\ NoAcquisitionPending)
        => pjTrack = [audio |-> audioEnabled, video |-> videoEnabled]

\* --------------------------------------------------------------------- C34
\* A message was delivered that names the local participant.
LocalNamed == nDelivered' = nDelivered + 1 /\ lastAct'.id = LocalId

\* C34: a message that names the local participant never changes the
\* participant list on its account: it leaves no participant with the local id
\* and closes no recorder; an announce, a participant-left/leave and a
\* track-state for the local id leave the list and the table as they were, and a
\* snapshot with an entry for the local id that ran to its end with no other
\* snapshot under way appends exactly its other new entries.
C34_LocalMessagesIgnored ==
    [][LocalNamed =>
          /\ LocalId \notin IdSet(participants')
          /\ openRecorders' = openRecorders
          /\ participantsRecording' = participantsRecording
          /\ sessionToParticipant' = sessionToParticipant
          /\ IF lastAct'.op = "existing-participants"
             THEN (lastSnap' # NoSnap /\ handlers'[lastSnap'.slot].pc = "idle")
                      => Ids(participants') = lastSnap'.expected
             ELSE participants' = participants]_vars

\* A snapshot naming the local participant and p1 was handled to its end: p1 is
\* in the room.
C34_Witness ==
    /\ lastAct.op = "existing-participants"
    /\ lastAct.id = LocalId
    /\ lastSnap # NoSnap
    /\ handlers[lastSnap.slot].pc = "idle"
    /\ "p1" \in IdSet(participants)
    /\ LocalId \notin IdSet(participants)

\* --------------------------------------------------------------------- C35
\* C35: in the room, the participants being recorded are participants of the
\* room, and every open recorder is one of a participant of the room: a
\* participant who leaves is taken out of the set and its recorder closed, also
\* while a start is still opening recorders.
C35_RecordedAreInRoom ==
    inRoom => /\ participantsRecording \subseteq IdSet(participants)
              /\ openRecorders \subseteq IdSet(participants)

\* --------------------------------------------------------------------- C36
\* A start of a recording is in progress.
StartInProgress == \E k \in RecSlots : recs[k].pc \in {"starting", "opening"}

\* C36: no recorder is left open outside a session: with the recording inactive
\* and no start in progress, no participant is marked as recorded and no
\* recorder is open.
C36_NoRecorderOutsideSession ==
    (~isRecording /\ ~StartInProgress) => (participantsRecording = {} /\ openRecorders = {})

\* --------------------------------------------------------------------- C37
\* C37: a remote participant registered with a session has its entry in the
\* session table before its tracks are subscribed, so a track-added event sets
\* the flags of that participant and never of an entry named by the raw session
\* id: every suspended snapshot handler awaits a session the table maps to the
\* participant of its entry, and the last track-added event named no session id.
C37_TracksReachParticipant ==
    /\ \A k \in DOMAIN handlers :
          handlers[k].pc = "await"
              => sessionToParticipant[handlers[k].awaited.sessionId] = handlers[k].awaited.participantId
    /\ lastAct.op = "trackAdded" => lastAct.id \notin SessionIds

\* --------------------------------------------------------------------- C40
\* Every call of enumerateDevices has settled.
EnumerationsSettled ==
    nEnums > 0 /\ \A k \in 1..nEnums : enumRuns[k].pc \in {"done", "failed"}

\* C40: the device list reflects the enumeration started last: once every
\* enumeration has settled and the one started last resolved, the list exposed is
\* the one that enumeration read.
C40_ListOfLastEnumeration ==
    (EnumerationsSettled /\ enumRuns[nEnums].pc = "done") => devices = enumRuns[nEnums].read

====
